---- MODULE Spec2Model ----
(***************************************************************************)
(* A model of snorkel's labeling-function helpers (snorkel/lf_helpers.py)  *)
(* and of the n-gram generator they are built on (snorkel/utils.py).       *)
(*                                                                         *)
(* A Python generator function runs none of its body when it is called:    *)
(* the call returns a generator object, and the body runs, one yield at a  *)
(* time, when the caller iterates.  The model keeps that: a call of a      *)
(* generator function moves pc to "created", every GenNext resumes the     *)
(* body up to its next yield, its raise or its end.                        *)
(*                                                                         *)
(* Strings are sequences of character codes, so that joining with a        *)
(* delimiter and lower-casing are computed, not assumed.                   *)
(***************************************************************************)
EXTENDS Integers, Sequences, FiniteSets, TLC

VARIABLES
    env,    \* the objects the caller holds: tokens, sentences, candidate, table
    call,   \* the helper being run and its arguments; NoCall when there is none
    pc,     \* "idle" | "created" | "running" | "done"
    pos,    \* how many items the generator object has yielded
    out,    \* the items the caller has received, in order
    err,    \* the exception the caller has seen: "none" or the exception's name
    lookups \* neighbour lookups (neighbor_cells) made by the _infer_cell call

vars == <<env, call, pc, pos, out, err, lookups>>

(***************************************************************************)
(* Bounds of the model.                                                    *)
(***************************************************************************)
MaxLen == 3        \* longest token sequence
MaxN == 3          \* largest n_max (and n_min)
MaxWindow == 2     \* largest window of the left/right extractors
MaxCells == 4      \* most grid positions of a table (rows times columns)
MaxPhrases == 3    \* most phrases of a document in the visual-alignment pass
MaxChars == 4      \* length of a parent's text in the text helpers

Min(a, b) == IF a < b THEN a ELSE b
Max(a, b) == IF a < b THEN b ELSE a
Abs(a) == IF a < 0 THEN -a ELSE a

NoCall == [op |-> "none"]

(***************************************************************************)
(* Python built-ins the helpers use.                                       *)
(***************************************************************************)

\* seq[lo:hi]: an index below zero counts from the end, one past the end is
\* clamped, and an empty range gives the empty sequence.
PyIndex(i, N) == IF i < 0 THEN Max(i + N, 0) ELSE Min(i, N)

PySlice(s, lo, hi) == SubSeq(s, PyIndex(lo, Len(s)) + 1, PyIndex(hi, Len(s)))

\* delim.join(tokens)
RECURSIVE join(_, _)
join(delim, toks) ==
    IF Len(toks) = 0 THEN <<>>
    ELSE IF Len(toks) = 1 THEN toks[1]
    ELSE toks[1] \o delim \o join(delim, Tail(toks))

\* str.lower() on ASCII: 'A'..'Z' (65..90) become 'a'..'z'.
lower_str(s) == [i \in 1..Len(s) |-> IF s[i] \in 65..90 THEN s[i] + 32 ELSE s[i]]

(***************************************************************************)
(* snorkel/utils.py: the n-gram generator.                                 *)
(***************************************************************************)

\* for root in reversed(range(N)): the roots scanned from the right.
RECURSIVE ngram_loop_rev(_, _, _, _, _)
ngram_loop_rev(N, n_first, n_max, root, n) ==
    IF root >= N THEN <<>>
    ELSE IF n >= Min(n_max, root + 1)
         THEN ngram_loop_rev(N, n_first, n_max, root + 1, n_first)
         ELSE <<<<N - 1 - root, n>>>> \o ngram_loop_rev(N, n_first, n_max, root, n + 1)

\* range(min(n_max, N - root) - 1): the longest n-gram of every root dropped.
RECURSIVE ngram_loop_short(_, _, _, _, _)
ngram_loop_short(N, n_first, n_max, root, n) ==
    IF root >= N THEN <<>>
    ELSE IF n >= Min(n_max, N - root) - 1
         THEN ngram_loop_short(N, n_first, n_max, root + 1, n_first)
         ELSE <<<<root, n>>>> \o ngram_loop_short(N, n_first, n_max, root, n + 1)

\* The two nested loops of slice_into_ngrams, from the loop state (root, n):
\*     for root in range(N):
\*         for n in range(n_first, min(n_max, N - root)):
\* as the sequence of <<root, n>> the body is run with.  n_first is the start
\* of the inner range: 0 in slice_into_ngrams.
RECURSIVE ngram_loop(_, _, _, _, _)
ngram_loop(N, n_first, n_max, root, n) ==
    IF root >= N THEN <<>>
    ELSE IF n >= Min(n_max, N - root)
         THEN ngram_loop(N, n_first, n_max, root + 1, n_first)
         ELSE <<<<root, n>>>> \o ngram_loop(N, n_first, n_max, root, n + 1)

\* One yielded n-gram.  text is what the caller receives; root and len say
\* which iteration of the loops yielded it (history, not visible to Python).
Ngram(tokens, delim, rn) ==
    [text |-> join(delim, PySlice(tokens, rn[1], rn[1] + rn[2] + 1)),
     root |-> rn[1],
     len  |-> rn[2] + 1]

\* slice_into_ngrams(tokens, n_max=3, delim='_')
slice_into_ngrams(tokens, n_max, delim) ==
    LET it == ngram_loop(Len(tokens), 0, n_max, 0, 0)
    IN  [k \in 1..Len(it) |-> Ngram(tokens, delim, it[k])]

\* tokens_to_ngrams(tokens, n_min=1, n_max=3, delim=' ', lower=False): the
\* generator lf_helpers.py imports.  It is slice_into_ngrams with the inner
\* range started at max(n_min - 1, 0), the items joined by a space and
\* case-folded when lower is set.
tokens_to_ngrams(tokens, n_min, n_max, lower) ==
    LET first == Max(n_min - 1, 0)
        it == ngram_loop(Len(tokens), first, n_max, 0, first)
        ng(k) == Ngram(tokens, <<32>>, it[k])
    IN  [k \in 1..Len(it) |->
            IF lower THEN [ng(k) EXCEPT !.text = lower_str(@)] ELSE ng(k)]

\* What running a generator body to its end gives: the items it yields, in
\* order, and the exception it raises after them ("none" when it returns).
Returns(items) == [items |-> items, raises |-> "none"]
Raises(exc) == [items |-> <<>>, raises |-> exc]

(***************************************************************************)
(* snorkel/lf_helpers.py: the directional context extractors.              *)
(*                                                                         *)
(* A span is [parent, word_start, word_end]: the parent sentence it lies   *)
(* in and what get_word_start() and get_word_end() return, both inclusive, *)
(* counted from 0.  The argument c of a helper is [is_span, args]: a span  *)
(* itself (isinstance(c, TemporarySpan), args = <<c>>) or a candidate with *)
(* the spans c[0], c[1], ... = args.  sents[p][attrib] is a token array of *)
(* parent p (span.parent._asdict()[attrib]).                               *)
(***************************************************************************)
AsSpan(span) == [is_span |-> TRUE, args |-> <<span>>]

\* The slice ends at i + 1: the span's first word is taken into the window.
get_left_ngrams_incl(sents, c, window, attrib, n_min, n_max, lower) ==
    LET span == IF c.is_span THEN c.args[1] ELSE c.args[1]                 \* c[0]
        i == span.word_start
    IN  tokens_to_ngrams(PySlice(sents[span.parent][attrib], Max(0, i - window), i + 1),
                         n_min, n_max, lower)

\* get_left_ngrams(c, window=3, attrib='words', n_min=1, n_max=1, lower=True)
get_left_ngrams(sents, c, window, attrib, n_min, n_max, lower) ==
    LET span == IF c.is_span THEN c.args[1] ELSE c.args[1]                 \* c[0]
        i == span.word_start
    IN  tokens_to_ngrams(PySlice(sents[span.parent][attrib], Max(0, i - window), i),
                         n_min, n_max, lower)

\* get_right_ngrams(c, window=3, attrib='words', n_min=1, n_max=1, lower=True)
get_right_ngrams(sents, c, window, attrib, n_min, n_max, lower) ==
    LET span == IF c.is_span THEN c.args[1] ELSE c.args[Len(c.args)]       \* c[-1]
        i == span.word_end
    IN  tokens_to_ngrams(PySlice(sents[span.parent][attrib], i + 1, i + 1 + window),
                         n_min, n_max, lower)

\* get_between_ngrams(c, attrib='words', n_min=1, n_max=1, lower=True): the
\* body of the generator function, both raises included.
get_between_ngrams(sents, c, attrib, n_min, n_max, lower) ==
    IF Len(c.args) # 2 THEN Raises("ValueError")
    ELSE LET span0 == c.args[1]
             span1 == c.args[2]
         IN  IF span0.parent # span1.parent THEN Raises("ValueError")
             ELSE LET distance == Abs(span0.word_start - span1.word_start)
                  IN  IF span0.word_start < span1.word_start
                      THEN Returns(get_right_ngrams(sents, AsSpan(span0), distance - 1,
                                                    attrib, n_min, n_max, lower))
                      ELSE Returns(get_left_ngrams(sents, AsSpan(span1), distance - 1,
                                                   attrib, n_min, n_max, lower))

(***************************************************************************)
(* snorkel/lf_helpers.py: the table helpers.                               *)
(*                                                                         *)
(* A cell is [kind, id, row_start, row_end, col_start, col_end, row, col,  *)
(* text, phrases]: id is its place in table.cells, row and col are the     *)
(* Row and Col objects it belongs to, [position |-> p], text its markup    *)
(* and phrases the phrases it owns.  A phrase is [kind, id, cell,          *)
(* row_start, row_end, col_start, col_end, words, lemmas], with the        *)
(* position of its cell.  All cells and phrases belong to the one table    *)
(* of the state, env.table.                                                *)
(***************************************************************************)

\* set(A) <= set(B): containment instead of a common element.
overlap_subset(A, B) == A \subseteq B

\* overlap(A, B)
overlap(A, B) == ~((A \cap B) = {})

\* _other_axis(axis)
_other_axis(axis) == IF axis = "col" THEN "row" ELSE "col"

\* range(x.<axis>_start, x.<axis>_end + 1) of a cell or a phrase
AxisRange(x, axis) == x[axis \o "_start"]..x[axis \o "_end"]

\* is_axis_aligned(c1, c2, axis) of table_utils: c1 and c2, cells or phrases
\* of one table, have overlapping row (column) ranges.
is_axis_aligned(c1, c2, axis) == overlap(AxisRange(c1, axis), AxisRange(c2, axis))

\* PhantomCell = namedtuple('PhantomCell', 'phrases')
PhantomCell == [kind |-> "PhantomCell", phrases |-> <<>>]

\* What a call of a function gives: the value it returns, or the exception
\* it raises; depth counts the neighbour lookups made on the way.
Value(v, depth) == [value |-> v, raises |-> "none", depth |-> depth]
Exception(exc, depth) == [value |-> <<>>, raises |-> exc, depth |-> depth]

\* _infer_cell with the first test reading `direct or ...`: the cell itself
\* whenever it has content, whatever direct is.
RECURSIVE _infer_cell_or(_, _, _, _, _)
_infer_cell_or(table, root_cell, axis, direct, infer) ==
    LET empty == Len(root_cell.text) = 9
        edge == root_cell[_other_axis(axis) \o "_start"] = 0
    IN  IF direct \/ ~empty
        THEN Value(root_cell, 0)
        ELSE IF edge \/ ~empty
        THEN Value(PhantomCell, 0)
        ELSE LET neighbor_cells ==
                    SelectSeq(table.cells,
                        LAMBDA cell :
                            /\ cell[axis] = root_cell[axis]
                            /\ cell[_other_axis(axis)].position
                                 = root_cell[_other_axis(axis)].position - 1)
             IN  IF Len(neighbor_cells) = 0
                 THEN Exception("IndexError", 1)
                 ELSE LET r == _infer_cell_or(table, neighbor_cells[1], axis, TRUE, TRUE)
                      IN  [r EXCEPT !.depth = @ + 1]

\* _infer_cell with the edge test dropped from the first condition: an empty
\* cell at the edge is looked up past the boundary.
RECURSIVE _infer_cell_noedge(_, _, _, _, _)
_infer_cell_noedge(table, root_cell, axis, direct, infer) ==
    LET empty == Len(root_cell.text) = 9
    IN  IF direct /\ (~empty \/ ~infer)
        THEN Value(root_cell, 0)
        ELSE IF ~empty
        THEN Value(PhantomCell, 0)
        ELSE LET neighbor_cells ==
                    SelectSeq(table.cells,
                        LAMBDA cell :
                            /\ cell[axis] = root_cell[axis]
                            /\ cell[_other_axis(axis)].position
                                 = root_cell[_other_axis(axis)].position - 1)
             IN  IF Len(neighbor_cells) = 0
                 THEN Exception("IndexError", 1)
                 ELSE LET r == _infer_cell_noedge(table, neighbor_cells[1], axis, TRUE, TRUE)
                      IN  [r EXCEPT !.depth = @ + 1]

\* _infer_cell with the neighbour taken as it is, without the recursive call:
\* an empty neighbour is returned instead of being skipped.
RECURSIVE _infer_cell_onestep(_, _, _, _, _)
_infer_cell_onestep(table, root_cell, axis, direct, infer) ==
    LET empty == Len(root_cell.text) = 9
        edge == root_cell[_other_axis(axis) \o "_start"] = 0
    IN  IF direct /\ (~empty \/ edge \/ ~infer)
        THEN Value(root_cell, 0)
        ELSE IF edge \/ ~empty
        THEN Value(PhantomCell, 0)
        ELSE LET neighbor_cells ==
                    SelectSeq(table.cells,
                        LAMBDA cell :
                            /\ cell[axis] = root_cell[axis]
                            /\ cell[_other_axis(axis)].position
                                 = root_cell[_other_axis(axis)].position - 1)
             IN  IF Len(neighbor_cells) = 0
                 THEN Exception("IndexError", 1)
                 ELSE Value(neighbor_cells[1], 1)

\* _infer_cell(root_cell, axis, direct, infer); neighbor_cells[0] of an empty
\* list raises IndexError.
RECURSIVE _infer_cell(_, _, _, _, _)
_infer_cell(table, root_cell, axis, direct, infer) ==
    LET empty == Len(root_cell.text) = 9
        edge == root_cell[_other_axis(axis) \o "_start"] = 0
    IN  IF direct /\ (~empty \/ edge \/ ~infer)
        THEN Value(root_cell, 0)
        ELSE IF edge \/ ~empty
        THEN Value(PhantomCell, 0)
        ELSE LET neighbor_cells ==
                    SelectSeq(table.cells,
                        LAMBDA cell :
                            /\ cell[axis] = root_cell[axis]
                            /\ cell[_other_axis(axis)].position
                                 = root_cell[_other_axis(axis)].position - 1)
             IN  IF Len(neighbor_cells) = 0
                 THEN Exception("IndexError", 1)
                 ELSE LET r == _infer_cell(table, neighbor_cells[1], axis, TRUE, TRUE)
                      IN  [r EXCEPT !.depth = @ + 1]

\* [_infer_cell(cell, axis, direct, infer) for cell in cells]: the list of the
\* cells returned, or the first exception raised.
RECURSIVE InferCells(_, _, _, _, _)
InferCells(table, cells, axis, direct, infer) ==
    IF Len(cells) = 0 THEN Value(<<>>, 0)
    ELSE LET r == _infer_cell(table, cells[1], axis, direct, infer)
         IN  IF r.raises # "none" THEN Exception(r.raises, r.depth)
             ELSE LET rest == InferCells(table, Tail(cells), axis, direct, infer)
                  IN  IF rest.raises # "none" THEN rest
                      ELSE Value(<<r.value>> \o rest.value, 0)

\* _get_aligned_cells(root_cell, axis, direct=True, infer=False)
_get_aligned_cells(table, root_cell, axis, direct, infer) ==
    LET aligned_cells ==
            SelectSeq(table.cells,
                LAMBDA cell : is_axis_aligned(root_cell, cell, axis) /\ cell # root_cell)
    IN  IF infer
        THEN InferCells(table, aligned_cells, _other_axis(axis), direct, infer)
        ELSE Value(aligned_cells, 0)

\* The concatenation of a list of lists.
RECURSIVE Flatten(_)
Flatten(xss) == IF Len(xss) = 0 THEN <<>> ELSE xss[1] \o Flatten(Tail(xss))

\* _get_aligned_phrases(root_phrase, axis, direct=True, infer=False)
_get_aligned_phrases(table, root_phrase, axis, direct, infer) ==
    LET aligned_cells ==
            SelectSeq(table.cells, LAMBDA cell : is_axis_aligned(root_phrase, cell, axis))
        inferred == InferCells(table, aligned_cells, _other_axis(axis), direct, infer)
    IN  IF inferred.raises # "none" THEN inferred
        ELSE Value(SelectSeq(Flatten([k \in 1..Len(inferred.value) |->
                                         inferred.value[k].phrases]),
                             LAMBDA phrase : phrase # root_phrase), 0)

\* None, as the value of span.parent.cell for a phrase outside every cell
None == [kind |-> "None"]

\* A generator body that runs another one after it: what the first yields, then,
\* unless the first raised, what the second yields.
Then(b1, b2) ==
    IF b1.raises # "none" THEN b1
    ELSE [items |-> b1.items \o b2.items, raises |-> b2.raises]

\* get_phrase_ngrams(c, attrib='words', n_min=1, n_max=1, lower=True)
RECURSIVE PhraseNgramsOfSpans(_, _, _, _, _, _)
PhraseNgramsOfSpans(sents, spans, attrib, n_min, n_max, lower) ==
    IF Len(spans) = 0 THEN <<>>
    ELSE get_left_ngrams(sents, AsSpan(spans[1]), 100, attrib, n_min, n_max, lower)
         \o get_right_ngrams(sents, AsSpan(spans[1]), 100, attrib, n_min, n_max, lower)
         \o PhraseNgramsOfSpans(sents, Tail(spans), attrib, n_min, n_max, lower)

get_phrase_ngrams(sents, c, attrib, n_min, n_max, lower) ==
    PhraseNgramsOfSpans(sents, c.args, attrib, n_min, n_max, lower)

\* for phrase in phrases: for ngram in tokens_to_ngrams(getattr(phrase, attrib), ...)
RECURSIVE NgramsOfPhrases(_, _, _, _, _)
NgramsOfPhrases(phrases, attrib, n_min, n_max, lower) ==
    IF Len(phrases) = 0 THEN <<>>
    ELSE tokens_to_ngrams(phrases[1][attrib], n_min, n_max, lower)
         \o NgramsOfPhrases(Tail(phrases), attrib, n_min, n_max, lower)

\* _get_axis_ngrams without the test of span.parent.cell: the aligned phrases
\* are asked of a phrase whose table is None, which raises AttributeError.
_get_axis_ngrams_noguard(table, sents, span, axis, direct, infer, attrib, n_min, n_max, lower) ==
    LET own == Returns(get_phrase_ngrams(sents, AsSpan(span), attrib, n_min, n_max, lower))
        parent == sents[span.parent]
        aligned == _get_aligned_phrases(table, parent, axis, direct, infer)
    IN  IF parent.cell = None THEN Then(own, Raises("AttributeError"))
        ELSE Then(own, IF aligned.raises # "none"
                       THEN Raises(aligned.raises)
                       ELSE Returns(NgramsOfPhrases(aligned.value, attrib, n_min, n_max,
                                                    lower)))

\* _get_axis_ngrams(span, axis, direct=True, infer=False, attrib='words',
\*                  n_min=1, n_max=1, lower=True); sents[span.parent] is the
\* phrase the span lies in.
_get_axis_ngrams(table, sents, span, axis, direct, infer, attrib, n_min, n_max, lower) ==
    LET own == Returns(get_phrase_ngrams(sents, AsSpan(span), attrib, n_min, n_max, lower))
        parent == sents[span.parent]
        aligned == _get_aligned_phrases(table, parent, axis, direct, infer)
    IN  IF parent.cell # None
        THEN Then(own, IF aligned.raises # "none"
                       THEN Raises(aligned.raises)
                       ELSE Returns(NgramsOfPhrases(aligned.value, attrib, n_min, n_max,
                                                    lower)))
        ELSE own

\* get_row_ngrams / get_col_ngrams (c, direct=True, infer=False, attrib='words',
\*                                  n_min=1, n_max=1, lower=True): axis is
\* 'row' for the first and 'col' for the second.
RECURSIVE AxisNgramsOfSpans(_, _, _, _, _, _, _, _, _, _)
AxisNgramsOfSpans(table, sents, spans, axis, direct, infer, attrib, n_min, n_max, lower) ==
    IF Len(spans) = 0 THEN Returns(<<>>)
    ELSE Then(_get_axis_ngrams(table, sents, spans[1], axis, direct, infer, attrib,
                               n_min, n_max, lower),
              AxisNgramsOfSpans(table, sents, Tail(spans), axis, direct, infer, attrib,
                                n_min, n_max, lower))

get_axis_ngrams(table, sents, c, axis, direct, infer, attrib, n_min, n_max, lower) ==
    AxisNgramsOfSpans(table, sents, c.args, axis, direct, infer, attrib, n_min, n_max, lower)

\* None in a field that otherwise holds a row or column index (row_start,
\* col_start of a phrase that lies in no table)
NoIndex == -1

\* span.parent.cell, the cell object its reference names
CellOf(table, phrase) ==
    CHOOSE cell \in {table.cells[k] : k \in 1..Len(table.cells)} : cell.id = phrase.cell.id

\* sorted(cells, key=lambda x: getattr(x, attr)): a stable sort, equal keys
\* keep the order of the list.
RECURSIVE sorted(_, _)
sorted(cells, attr) ==
    IF Len(cells) = 0 THEN <<>>
    ELSE LET x == cells[1]
             rest == sorted(Tail(cells), attr)
             before == SelectSeq(rest, LAMBDA y : y[attr] < x[attr])
             after == SelectSeq(rest, LAMBDA y : y[attr] >= x[attr])
         IN  before \o <<x>> \o after

\* sorted(...)[-1]: the aligned cell farthest from the origin.
_get_head_cell_last(table, root_cell, axis, infer) ==
    LET other_axis == IF axis = "col" THEN "row" ELSE "col"
        aligned_cells == _get_aligned_cells(table, root_cell, axis, TRUE, infer)
    IN  IF aligned_cells.raises # "none" THEN aligned_cells
        ELSE IF Len(aligned_cells.value) = 0 THEN Value(<<>>, 0)
        ELSE LET s == sorted(aligned_cells.value, other_axis \o "_start")
             IN  Value(s[Len(s)], 0)

\* _get_head_cell(root_cell, axis, infer=False): the first of the aligned
\* cells sorted by their start on the other axis, [] when there is none.  A
\* PhantomCell has no <axis>_start to sort by.
_get_head_cell(table, root_cell, axis, infer) ==
    LET other_axis == IF axis = "col" THEN "row" ELSE "col"
        aligned_cells == _get_aligned_cells(table, root_cell, axis, TRUE, infer)
    IN  IF aligned_cells.raises # "none" THEN aligned_cells
        ELSE IF Len(aligned_cells.value) = 0 THEN Value(<<>>, 0)
        ELSE IF \E k \in 1..Len(aligned_cells.value) :
                    aligned_cells.value[k].kind = "PhantomCell"
        THEN Exception("AttributeError", 0)
        ELSE Value(sorted(aligned_cells.value, other_axis \o "_start")[1], 0)

\* for axis in axes: for phrase in getattr(_get_head_cell(...), 'phrases', []):
\*     for ngram in tokens_to_ngrams(getattr(phrase, attrib), ...): yield ngram
RECURSIVE HeadNgramsOfAxes(_, _, _, _, _, _, _, _)
HeadNgramsOfAxes(table, root_cell, axes, infer, attrib, n_min, n_max, lower) ==
    IF Len(axes) = 0 THEN Returns(<<>>)
    ELSE LET head == _get_head_cell(table, root_cell, axes[1], infer)
         IN  IF head.raises # "none" THEN Raises(head.raises)
             ELSE Then(Returns(IF head.value = <<>> THEN <<>>
                               ELSE NgramsOfPhrases(head.value.phrases, attrib, n_min,
                                                    n_max, lower)),
                       HeadNgramsOfAxes(table, root_cell, Tail(axes), infer, attrib,
                                        n_min, n_max, lower))

\* The loop of get_head_ngrams over the spans: a span whose phrase has no
\* cell ends the generator (`return`), the spans after it are not looked at.
RECURSIVE HeadNgramsOfSpans(_, _, _, _, _, _, _, _, _)
HeadNgramsOfSpans(table, sents, spans, axes, infer, attrib, n_min, n_max, lower) ==
    IF Len(spans) = 0 THEN Returns(<<>>)
    ELSE LET parent == sents[spans[1].parent]
         IN  IF parent.cell = None THEN Returns(<<>>)
             ELSE Then(HeadNgramsOfAxes(table, CellOf(table, parent), axes, infer,
                                        attrib, n_min, n_max, lower),
                       HeadNgramsOfSpans(table, sents, Tail(spans), axes, infer, attrib,
                                         n_min, n_max, lower))

\* get_head_ngrams(c, axis=None, infer=False, attrib='words', n_min=1, n_max=1,
\*                 lower=True); axis is "row", "col" or None.
get_head_ngrams(table, sents, c, axis, infer, attrib, n_min, n_max, lower) ==
    LET axes == IF axis # "None" THEN <<axis>> ELSE <<"row", "col">>
    IN  HeadNgramsOfSpans(table, sents, c.args, axes, infer, attrib, n_min, n_max, lower)

\* get_cell_ngrams(c, attrib='words', n_min=1, n_max=1, lower=True)
RECURSIVE CellNgramsOfSpans(_, _, _, _, _, _, _)
CellNgramsOfSpans(table, sents, spans, attrib, n_min, n_max, lower) ==
    IF Len(spans) = 0 THEN <<>>
    ELSE LET parent == sents[spans[1].parent]
         IN  get_phrase_ngrams(sents, AsSpan(spans[1]), attrib, n_min, n_max, lower)
             \o (IF parent.cell # None
                 THEN NgramsOfPhrases(SelectSeq(CellOf(table, parent).phrases,
                                                LAMBDA phrase : phrase # parent),
                                      attrib, n_min, n_max, lower)
                 ELSE <<>>)
             \o CellNgramsOfSpans(table, sents, Tail(spans), attrib, n_min, n_max, lower)

get_cell_ngrams(table, sents, c, attrib, n_min, n_max, lower) ==
    Returns(CellNgramsOfSpans(table, sents, c.args, attrib, n_min, n_max, lower))

\* get_neighbor_cell_ngrams(c, dist=1, directions=False, attrib='words', n_min=1,
\*                          n_max=1, lower=True).  For a span whose phrase has
\* a row and a column, line 308 builds the list the loop is to run over from
\* _get_aligned_phrases(phrase, ...), and `phrase` is the variable of that
\* very loop: a local of the function that nothing has bound yet, so reading
\* it raises UnboundLocalError before the first turn of the loop.  The loop
\* body (lines 309-328) is never reached, whatever dist and directions are.
RECURSIVE NeighborCellNgramsOfSpans(_, _, _, _, _, _, _, _)
NeighborCellNgramsOfSpans(sents, spans, dist, directions, attrib, n_min, n_max, lower) ==
    IF Len(spans) = 0 THEN Returns(<<>>)
    ELSE LET parent == sents[spans[1].parent]
             own == Returns(get_phrase_ngrams(sents, AsSpan(spans[1]), attrib, n_min,
                                              n_max, lower))
         IN  IF parent.row_start # NoIndex /\ parent.col_start # NoIndex
             THEN Then(own, Raises("UnboundLocalError"))
             ELSE Then(own, NeighborCellNgramsOfSpans(sents, Tail(spans), dist,
                                                      directions, attrib, n_min, n_max,
                                                      lower))

get_neighbor_cell_ngrams(sents, c, dist, directions, attrib, n_min, n_max, lower) ==
    NeighborCellNgramsOfSpans(sents, c.args, dist, directions, attrib, n_min, n_max, lower)

(***************************************************************************)
(* The body of each generator function: the items it yields, in order, and *)
(* the exception it raises after them ("none" when it returns).            *)
(***************************************************************************)

GenBody(c) ==
    CASE c.op = "tokens_to_ngrams" ->
            Returns(tokens_to_ngrams(c.tokens, c.n_min, c.n_max, c.lower))
      [] c.op = "slice_into_ngrams" ->
            Returns(slice_into_ngrams(c.tokens, c.n_max, c.delim))
      [] c.op = "get_left_ngrams" ->
            Returns(get_left_ngrams(c.sents, c.c, c.window, c.attrib, c.n_min, c.n_max,
                                    c.lower))
      [] c.op = "get_right_ngrams" ->
            Returns(get_right_ngrams(c.sents, c.c, c.window, c.attrib, c.n_min, c.n_max,
                                     c.lower))
      [] c.op \in {"get_between_ngrams", "get_between_tokens"} ->
            get_between_ngrams(c.sents, c.c, c.attrib, c.n_min, c.n_max, c.lower)
      [] c.op \in {"get_row_ngrams", "get_col_ngrams"} ->
            get_axis_ngrams(env.table, env.sents, c.c,
                            IF c.op = "get_row_ngrams" THEN "row" ELSE "col",
                            c.direct, c.infer, c.attrib, c.n_min, c.n_max, c.lower)
      [] c.op = "get_head_ngrams" ->
            get_head_ngrams(env.table, env.sents, c.c, c.axis, c.infer, c.attrib,
                            c.n_min, c.n_max, c.lower)
      [] c.op = "get_cell_ngrams" ->
            get_cell_ngrams(env.table, env.sents, c.c, c.attrib, c.n_min, c.n_max,
                            c.lower)
      [] c.op = "get_neighbor_cell_ngrams" ->
            get_neighbor_cell_ngrams(env.sents, c.c, c.dist, c.directions, c.attrib,
                                     c.n_min, c.n_max, c.lower)

(***************************************************************************)
(* Iterating a generator object.                                           *)
(***************************************************************************)

\* next(g): resume the body up to its next yield, its raise or its return.
GenNext ==
    /\ pc \in {"created", "running"}
    /\ LET b == GenBody(call)
       IN  IF pos < Len(b.items)
           THEN /\ out' = Append(out, b.items[pos + 1])
                /\ pos' = pos + 1
                /\ pc' = "running"
                /\ err' = err
           ELSE /\ pc' = "done"
                /\ err' = b.raises
                /\ UNCHANGED <<out, pos>>
    /\ UNCHANGED <<env, call, lookups>>

\* The caller drops the exhausted generator and is ready for another call.
Return ==
    /\ pc = "done"
    /\ pc' = "idle"
    /\ call' = NoCall
    /\ pos' = 0
    /\ out' = <<>>
    /\ err' = "none"
    /\ lookups' = 0
    /\ UNCHANGED env

\* A list comprehension over a generator, [ngram for ngram in g(...)]: the
\* generator is created and run to its end, or to its raise, within the call.
ListOfGenerator(c) ==
    /\ pc = "idle"
    /\ call' = c
    /\ pc' = "done"
    /\ out' = GenBody(c).items
    /\ pos' = Len(GenBody(c).items)
    /\ err' = GenBody(c).raises
    /\ UNCHANGED <<env, lookups>>

\* Calling a function that is no generator: it has returned r.value, or raised
\* r.raises, when the call is over.
CallFunction(c, r) ==
    /\ pc = "idle"
    /\ call' = c
    /\ pc' = "done"
    /\ out' = IF r.raises = "none" THEN <<r.value>> ELSE <<>>
    /\ pos' = 0
    /\ err' = r.raises
    /\ lookups' = r.depth
    /\ UNCHANGED env

\* Calling a generator function: a generator object, and no line of the body run.
NewGenerator(c) ==
    /\ pc = "idle"
    /\ call' = c
    /\ pc' = "created"
    /\ pos' = 0
    /\ out' = <<>>
    /\ err' = "none"
    /\ lookups' = 0
    /\ UNCHANGED env

(***************************************************************************)
(* The n-gram generator on its own: every token sequence up to MaxLen over *)
(* a small vocabulary with repeated tokens, mixed case and a token that    *)
(* holds the delimiter's neighbours.                                       *)
(***************************************************************************)
Vocab == {<<65>>, <<98>>, <<67, 100>>}       \* "A", "b", "Cd"

RECURSIVE SeqsUpTo(_, _)
SeqsUpTo(S, n) ==
    IF n = 0 THEN {<<>>}
    ELSE LET shorter == SeqsUpTo(S, n - 1)
         IN  shorter \cup {Append(s, x) : s \in {t \in shorter : Len(t) = n - 1}, x \in S}

InitNgram ==
    /\ env \in {[tokens |-> t] : t \in SeqsUpTo(Vocab, MaxLen)}
    /\ call = NoCall
    /\ pc = "idle"
    /\ pos = 0
    /\ out = <<>>
    /\ err = "none"
    /\ lookups = 0

CallTokensToNgrams ==
    \E n_min \in 1..MaxN, n_max \in 1..MaxN, lower \in BOOLEAN :
        /\ n_min <= n_max
        /\ NewGenerator([op |-> "tokens_to_ngrams", tokens |-> env.tokens,
                         n_min |-> n_min, n_max |-> n_max, lower |-> lower])

CallSliceIntoNgrams ==
    \E n_max \in 1..MaxN :
        NewGenerator([op |-> "slice_into_ngrams", tokens |-> env.tokens,
                      n_max |-> n_max, delim |-> <<95>>])

NextNgram ==
    \/ CallTokensToNgrams
    \/ CallSliceIntoNgrams
    \/ GenNext
    \/ Return

SpecNgram == InitNgram /\ [][NextNgram]_vars

(***************************************************************************)
(* Claims about the n-gram generator, checked under SpecNgram.             *)
(***************************************************************************)
RECURSIVE SumRange(_, _, _)
SumRange(lo, hi, N) == IF lo > hi THEN 0 ELSE (N - lo + 1) + SumRange(lo + 1, hi, N)

\* The n-gram calls, with the n_min each has (slice_into_ngrams has none: 1).
NgramCall == call.op \in {"tokens_to_ngrams", "slice_into_ngrams"}
NgramNMin == IF call.op = "tokens_to_ngrams" THEN call.n_min ELSE 1
NgramDelim == IF call.op = "tokens_to_ngrams" THEN <<32>> ELSE call.delim
NgramFold(s) == IF call.op = "tokens_to_ngrams" /\ call.lower THEN lower_str(s) ELSE s

\* text is a contiguous run of between n_min and n_max tokens of the input.
IsRunOf(text, tokens, n_min, n_max) ==
    \E start \in 1..Len(tokens), len \in n_min..n_max :
        /\ start + len - 1 <= Len(tokens)
        /\ text = NgramFold(join(NgramDelim, SubSeq(tokens, start, start + len - 1)))

\* C1: for every token sequence T and 1 <= n_min <= n_max the generator
\* yields, by the time it is exhausted, exactly the sum over n in
\* [n_min, min(n_max, len(T))] of (len(T) - n + 1) items, never more on the
\* way, each a contiguous run of n_min..n_max tokens of T, and it raises
\* nothing (for empty T: no item, no error).
C1_NgramCount ==
    NgramCall =>
        LET N == Len(call.tokens)
            expected == SumRange(NgramNMin, Min(call.n_max, N), N)
        IN  /\ err = "none"
            /\ Len(out) <= expected
            /\ pc = "done" => Len(out) = expected
            /\ \A k \in 1..Len(out) :
                    IsRunOf(out[k].text, call.tokens, NgramNMin, call.n_max)

\* The generator is exhausted after yielding the 2-grams and the 3-gram of a
\* three-token sequence.
C1_Witness ==
    /\ call.op = "tokens_to_ngrams" /\ pc = "done"
    /\ Len(call.tokens) = 3 /\ call.n_min = 2 /\ call.n_max = 3
    /\ Len(out) = 3

\* C2: of two yielded n-grams that end at the same token position, the longer
\* one was yielded before the shorter one.
C2_LongestFirstPerEnd ==
    NgramCall =>
        \A i, j \in 1..Len(out) :
            (/\ out[i].root + out[i].len = out[j].root + out[j].len
             /\ out[i].len > out[j].len) => i < j

\* Two n-grams of different lengths that end at the same position were yielded.
C2_Witness ==
    /\ NgramCall
    /\ \E i, j \in 1..Len(out) :
            /\ out[i].root + out[i].len = out[j].root + out[j].len
            /\ out[i].len > out[j].len

(***************************************************************************)
(* The context extractors on candidates of one to three spans over two     *)
(* parent sentences.  The words of a sentence are pairwise distinct, also  *)
(* after case-folding, so an n-gram tells which tokens it was built from.  *)
(***************************************************************************)
BaseWords ==
    << << <<65>>, <<98>>, <<67, 100>>, <<101>>, <<70>> >>,      \* A b Cd e F
       << <<120>>, <<89>>, <<122>>, <<87>>, <<118>> >> >>       \* x Y z W v

Parents == {1, 2}

BaseLemmas ==
    << << <<97, 110>>, <<98, 101>>, <<99>>, <<100, 111>>, <<103, 111>> >>,   \* an be c do go
       << <<104, 105>>, <<105, 116>>, <<109, 101>>, <<110, 111>>, <<111, 102>> >> >>
                                                                    \* hi it me no of

Attribs == {"words", "lemmas"}

Sentences(L) ==
    [p \in Parents |-> [words |-> SubSeq(BaseWords[p], 1, L),
                        lemmas |-> SubSeq(BaseLemmas[p], 1, L)]]

SpansOf(ps, L) ==
    {[parent |-> p, word_start |-> a, word_end |-> b] :
        p \in ps, a \in 0..(L - 1), b \in 0..(L - 1)} \ 
    {sp \in [parent : ps, word_start : 0..(L - 1), word_end : 0..(L - 1)] :
        sp.word_start > sp.word_end}

\* A span passed as such, or a candidate of 1..3 spans; the parents are
\* numbered so that the first span lies in parent 1.
CandidatesOf(L) ==
    LET first == SpansOf({1}, L)
        any == SpansOf(Parents, L)
    IN  {[is_span |-> b, args |-> <<s>>] : b \in BOOLEAN, s \in first}
        \cup {[is_span |-> FALSE, args |-> <<s, t>>] : s \in first, t \in any}
        \cup {[is_span |-> FALSE, args |-> <<s, t, u>>] : s \in first, t \in any, u \in any}

\* n_min, n_max of the context extractors' calls
CtxNgramArgs == {<<1, 1>>, <<1, 2>>, <<2, 2>>}

InitCtx ==
    /\ \E L \in 1..MaxLen :
        env \in {[sents |-> Sentences(L), c |-> c] : c \in CandidatesOf(L)}
    /\ call = NoCall
    /\ pc = "idle"
    /\ pos = 0
    /\ out = <<>>
    /\ err = "none"
    /\ lookups = 0

CtxCall(op, window, attrib, nn, lower) ==
    [op |-> op, sents |-> env.sents, c |-> env.c, window |-> window,
     attrib |-> attrib, n_min |-> nn[1], n_max |-> nn[2], lower |-> lower]

CallLeftNgrams ==
    \E window \in 0..MaxWindow, attrib \in Attribs, nn \in CtxNgramArgs,
       lower \in BOOLEAN :
        NewGenerator(CtxCall("get_left_ngrams", window, attrib, nn, lower))

CallRightNgrams ==
    \E window \in 0..MaxWindow, attrib \in Attribs, nn \in CtxNgramArgs,
       lower \in BOOLEAN :
        NewGenerator(CtxCall("get_right_ngrams", window, attrib, nn, lower))

\* get_between_ngrams takes a candidate (it calls c.get_arguments()).
CallBetweenNgrams ==
    \E attrib \in Attribs, nn \in CtxNgramArgs, lower \in BOOLEAN :
        /\ ~env.c.is_span
        /\ NewGenerator(CtxCall("get_between_ngrams", 0, attrib, nn, lower))

\* get_between_tokens: the list of what get_between_ngrams yields.
CallBetweenTokens ==
    \E attrib \in Attribs, nn \in CtxNgramArgs, lower \in BOOLEAN :
        /\ ~env.c.is_span
        /\ ListOfGenerator(CtxCall("get_between_tokens", 0, attrib, nn, lower))

NextCtx ==
    \/ CallLeftNgrams
    \/ CallRightNgrams
    \/ CallBetweenNgrams
    \/ CallBetweenTokens
    \/ GenNext
    \/ Return

SpecCtx == InitCtx /\ [][NextCtx]_vars

(***************************************************************************)
(* Claims about the context extractors, checked under SpecCtx.             *)
(***************************************************************************)
Texts(items) == [k \in 1..Len(items) |-> items[k].text]

BetweenCall == call.op \in {"get_between_ngrams", "get_between_tokens"}

\* A binary candidate whose two spans share one parent.
BinarySameParent(c) ==
    /\ ~c.is_span
    /\ Len(c.args) = 2
    /\ c.args[1].parent = c.args[2].parent

Swapped(c) == [c EXCEPT !.args = <<c.args[2], c.args[1]>>]

\* C3: for a binary candidate (A, B) over one parent, the n-grams
\* get_between_ngrams has produced when it is exhausted are those it produces
\* for (B, A), in the same order.
C3_BetweenSymmetric ==
    (BetweenCall /\ pc = "done" /\ BinarySameParent(call.c)) =>
        Texts(out) = Texts(get_between_ngrams(call.sents, Swapped(call.c), call.attrib,
                                              call.n_min, call.n_max, call.lower).items)

\* The tokens strictly after the last word of the earlier span and strictly
\* before the first word of the later one.
TokensBetween(sents, c, attrib) ==
    LET a == c.args[1]
        b == c.args[2]
        earlier == IF a.word_start <= b.word_start THEN a ELSE b
        later == IF a.word_start <= b.word_start THEN b ELSE a
    IN  SubSeq(sents[a.parent][attrib], earlier.word_end + 2, later.word_start)

\* C4: for a binary candidate over one parent, get_between_ngrams yields
\* exactly the n-grams of the tokens strictly between the two spans: no token
\* of either span and none outside them, whatever the spans' widths.
C4_BetweenExact ==
    (BetweenCall /\ pc = "done" /\ BinarySameParent(call.c)) =>
        /\ err = "none"
        /\ Texts(out) = Texts(tokens_to_ngrams(
                                  TokensBetween(call.sents, call.c, call.attrib),
                                  call.n_min, call.n_max, call.lower))

\* C5: once get_between_ngrams has been called on a candidate that has not
\* exactly two spans, or two spans of different parents, the caller has seen
\* a ValueError (and no n-gram): the failure comes with the call, not with the
\* first iteration of its result.
C5_BetweenFailsAtCall ==
    (call.op = "get_between_ngrams" /\ ~BinarySameParent(call.c)) =>
        (err = "ValueError" /\ out = <<>>)

\* The window of a left/right call: the span the extractor looks at (the first
\* argument for left, the last for right), and the first and last position,
\* counted from 1, of the at most `window` tokens next to it in its parent.
WindowSpan ==
    IF call.c.is_span THEN call.c.args[1]
    ELSE IF call.op = "get_left_ngrams" THEN call.c.args[1]
    ELSE call.c.args[Len(call.c.args)]

WindowTokens == call.sents[WindowSpan.parent][call.attrib]

WindowLo ==
    IF call.op = "get_left_ngrams"
    THEN Max(1, WindowSpan.word_start + 1 - call.window)
    ELSE WindowSpan.word_end + 2

WindowHi ==
    IF call.op = "get_left_ngrams"
    THEN WindowSpan.word_start
    ELSE Min(Len(WindowTokens), WindowSpan.word_end + 1 + call.window)

WindowSize == Max(0, WindowHi - WindowLo + 1)

\* C6: get_left_ngrams (get_right_ngrams) yields only n-grams of n_min..n_max
\* consecutive tokens taken from the at most `window` tokens immediately
\* before the first word (after the last word) of the span, clamped at the
\* sentence boundary and without any token of the span; for a candidate of
\* several spans the left extractor looks at the first span, the right one at
\* the last.  When exhausted it has yielded every such n-gram.
C6_WindowOnly ==
    (call.op \in {"get_left_ngrams", "get_right_ngrams"}) =>
        /\ err = "none"
        /\ WindowSize <= call.window
        /\ \A k \in 1..Len(out) :
             \E a \in WindowLo..WindowHi, b \in WindowLo..WindowHi :
                /\ b - a + 1 \in call.n_min..call.n_max
                /\ out[k].text =
                     (IF call.lower THEN lower_str(join(<<32>>, SubSeq(WindowTokens, a, b)))
                      ELSE join(<<32>>, SubSeq(WindowTokens, a, b)))
        /\ pc = "done" =>
             Len(out) = SumRange(call.n_min, Min(call.n_max, WindowSize), WindowSize)

\* A left call on a three-span candidate whose last span is not its first,
\* with the window cut to one token by the start of the sentence.
C6_Witness ==
    /\ call.op = "get_left_ngrams" /\ pc = "done"
    /\ Len(call.c.args) = 3
    /\ call.c.args[3] # call.c.args[1]
    /\ call.c.args[1].word_start = 1
    /\ call.window = 2
    /\ Len(out) = 1

(***************************************************************************)
(* The table helpers on every table of at most MaxCells grid positions.    *)
(* A position holds no cell (a ragged row), an empty cell (<td></td>, no   *)
(* phrase) or a cell with one two-word phrase; one cell of the table may   *)
(* span two rows or two columns, and the position it covers then holds no  *)
(* cell of its own.  The words of different cells differ, also after       *)
(* case-folding.                                                           *)
(***************************************************************************)
Shapes == {rc \in (1..MaxCells) \X (1..MaxCells) : rc[1] * rc[2] <= MaxCells}

NoMerge == [dir |-> "no", at |-> 0, content |-> "empty"]

\* The cells that may span two positions of an r by c grid: from position
\* `at` (row-major, from 0) down or right.
Merges(r, c) ==
    {NoMerge} \cup
    {m \in [dir : {"down", "right"}, at : 0..(r * c - 1), content : {"empty", "full"}] :
        IF m.dir = "down" THEN (m.at \div c) + 1 < r ELSE (m.at % c) + 1 < c}

Covered(c, m) == IF m.dir = "down" THEN m.at + c ELSE m.at + 1

PhraseAt(i, row_start, row_end, col_start, col_end) ==
    [kind |-> "Phrase", id |-> i + 1, cell |-> [kind |-> "Cell", id |-> i + 1],
     row_start |-> row_start, row_end |-> row_end,
     col_start |-> col_start, col_end |-> col_end,
     words |-> << <<97 + i>>, <<78 + i>> >>]

CellAt(c, lay, m, i) ==
    LET start == m.dir # "no" /\ m.at = i
        content == IF start THEN m.content ELSE lay[i]
        row_start == i \div c
        col_start == i % c
        row_end == IF start /\ m.dir = "down" THEN row_start + 1 ELSE row_start
        col_end == IF start /\ m.dir = "right" THEN col_start + 1 ELSE col_start
    IN  [kind |-> "Cell", id |-> i + 1,
         row_start |-> row_start, row_end |-> row_end,
         col_start |-> col_start, col_end |-> col_end,
         row |-> [position |-> row_start], col |-> [position |-> col_start],
         text |-> IF content = "full" THEN "<td>a b</td>" ELSE "<td></td>",
         phrases |-> IF content = "full"
                     THEN <<PhraseAt(i, row_start, row_end, col_start, col_end)>>
                     ELSE <<>>]

RECURSIVE CellsFrom(_, _, _, _, _)
CellsFrom(r, c, lay, m, i) ==
    IF i >= r * c THEN <<>>
    ELSE LET present ==
                /\ ~(m.dir # "no" /\ Covered(c, m) = i)
                /\ (IF m.dir # "no" /\ m.at = i THEN TRUE ELSE lay[i] # "none")
         IN  (IF present THEN <<CellAt(c, lay, m, i)>> ELSE <<>>)
             \o CellsFrom(r, c, lay, m, i + 1)

Tables ==
    UNION {
        {[cells |-> CellsFrom(rc[1], rc[2], lay, m, 0)] :
            lay \in [0..(rc[1] * rc[2] - 1) -> {"none", "empty", "full"}],
            m \in Merges(rc[1], rc[2])} :
        rc \in Shapes}

\* document.phrases by id: the parent of a span is a phrase id.
PhrasesOf(table) == Flatten([k \in 1..Len(table.cells) |-> table.cells[k].phrases])

PhrasesById(table) ==
    LET ps == PhrasesOf(table)
    IN  [id \in {ps[k].id : k \in 1..Len(ps)} |->
            (CHOOSE ph \in {ps[k] : k \in 1..Len(ps)} : ph.id = id)]

InitTable ==
    /\ env \in {[table |-> t, sents |-> PhrasesById(t)] : t \in Tables}
    /\ call = NoCall
    /\ pc = "idle"
    /\ pos = 0
    /\ out = <<>>
    /\ err = "none"
    /\ lookups = 0

CellsOf(table) == {table.cells[k] : k \in 1..Len(table.cells)}

Axes == {"row", "col"}

CallInferCell ==
    \E root_cell \in CellsOf(env.table), axis \in Axes, direct \in BOOLEAN,
       infer \in BOOLEAN :
        CallFunction([op |-> "_infer_cell", root_cell |-> root_cell, axis |-> axis,
                      direct |-> direct, infer |-> infer],
                     _infer_cell(env.table, root_cell, axis, direct, infer))

CallGetAlignedCells ==
    \E root_cell \in CellsOf(env.table), axis \in Axes, direct \in BOOLEAN,
       infer \in BOOLEAN :
        CallFunction([op |-> "_get_aligned_cells", root_cell |-> root_cell, axis |-> axis,
                      direct |-> direct, infer |-> infer],
                     _get_aligned_cells(env.table, root_cell, axis, direct, infer))

\* get_row_ngrams and get_col_ngrams on a span, with the defaults of their
\* signature for attrib, n_min, n_max and lower.
AxisCall(op, span, direct, infer) ==
    [op |-> op, c |-> AsSpan(span), direct |-> direct, infer |-> infer,
     attrib |-> "words", n_min |-> 1, n_max |-> 1, lower |-> TRUE]

\* The spans of one word of a phrase: of the phrases of the table and, where
\* the document has one, of the phrase outside the table.
SpansIn(sents) ==
    {[parent |-> id, word_start |-> w, word_end |-> w] : id \in DOMAIN sents, w \in 0..1}

CallRowNgrams ==
    \E span \in SpansIn(env.sents), direct \in BOOLEAN, infer \in BOOLEAN :
        NewGenerator(AxisCall("get_row_ngrams", span, direct, infer))

CallColNgrams ==
    \E span \in SpansIn(env.sents), direct \in BOOLEAN, infer \in BOOLEAN :
        NewGenerator(AxisCall("get_col_ngrams", span, direct, infer))

NextTable ==
    \/ CallInferCell
    \/ CallGetAlignedCells
    \/ CallRowNgrams
    \/ CallColNgrams
    \/ GenNext
    \/ Return

SpecTable == InitTable /\ [][NextTable]_vars

(***************************************************************************)
(* The extractors of a span's table context on a document that holds one   *)
(* table, as above, and one phrase that lies in no table: its cell is      *)
(* None and so are its row and column.                                     *)
(***************************************************************************)
LoosePhrase ==
    [kind |-> "Phrase", id |-> 0, cell |-> None,
     row_start |-> NoIndex, row_end |-> NoIndex,
     col_start |-> NoIndex, col_end |-> NoIndex,
     words |-> << <<117>>, <<86>> >>]                         \* u V

WithLoosePhrase(table) ==
    LET in_table == PhrasesById(table)
    IN  [id \in (DOMAIN in_table) \cup {0} |->
            IF id = 0 THEN LoosePhrase ELSE in_table[id]]

InitExtract ==
    /\ env \in {[table |-> t, sents |-> WithLoosePhrase(t)] : t \in Tables}
    /\ call = NoCall
    /\ pc = "idle"
    /\ pos = 0
    /\ out = <<>>
    /\ err = "none"
    /\ lookups = 0

CallHeadNgrams ==
    \E span \in SpansIn(env.sents), axis \in {"row", "col", "None"}, infer \in BOOLEAN :
        NewGenerator([op |-> "get_head_ngrams", c |-> AsSpan(span), axis |-> axis,
                      infer |-> infer,
                      attrib |-> "words", n_min |-> 1, n_max |-> 1, lower |-> TRUE])

\* get_cell_ngrams on a span, with the defaults of its signature for attrib,
\* n_min, n_max and lower.
CallCellNgrams ==
    \E span \in SpansIn(env.sents) :
        NewGenerator([op |-> "get_cell_ngrams", c |-> AsSpan(span),
                      attrib |-> "words", n_min |-> 1, n_max |-> 1, lower |-> TRUE])

CallNeighborCellNgrams ==
    \E span \in SpansIn(env.sents), dist \in 1..2, directions \in BOOLEAN :
        NewGenerator([op |-> "get_neighbor_cell_ngrams", c |-> AsSpan(span),
                      dist |-> dist, directions |-> directions,
                      attrib |-> "words", n_min |-> 1, n_max |-> 1, lower |-> TRUE])

NextExtract ==
    \/ CallHeadNgrams
    \/ CallCellNgrams
    \/ CallNeighborCellNgrams
    \/ CallRowNgrams
    \/ CallColNgrams
    \/ GenNext
    \/ Return

SpecExtract == InitExtract /\ [][NextExtract]_vars

(***************************************************************************)
(* Claims about the table helpers, checked under SpecTable.                *)
(***************************************************************************)
Elems(seq) == {seq[k] : k \in 1..Len(seq)}

StructurallyEmpty(cell) == cell.text = "<td></td>"

\* C7: row and column alignment are symmetric on the cells of a table, and so
\* is membership in the aligned cells: once _get_aligned_cells(A, axis) has
\* returned (without inference), B is in its result iff A is in the result
\* of _get_aligned_cells(B, axis).
C7_AlignmentSymmetric ==
    /\ \A A \in CellsOf(env.table), B \in CellsOf(env.table), axis \in Axes :
            is_axis_aligned(A, B, axis) = is_axis_aligned(B, A, axis)
    /\ (call.op = "_get_aligned_cells" /\ ~call.infer /\ pc = "done") =>
            /\ err = "none"
            /\ \A B \in CellsOf(env.table) :
                 (B \in Elems(out[1]))
                   = (call.root_cell \in
                        Elems(_get_aligned_cells(env.table, B, call.axis, call.direct,
                                                 FALSE).value))

\* _get_aligned_cells has returned the row-aligned cells of a cell spanning
\* two rows, and there are some.
C7_Witness ==
    /\ call.op = "_get_aligned_cells" /\ pc = "done"
    /\ ~call.infer /\ call.axis = "row"
    /\ call.root_cell.row_end > call.root_cell.row_start
    /\ Len(out[1]) >= 2

InferCallDone == call.op = "_infer_cell" /\ pc = "done"

\* C8 as stated: on a cell with content, _infer_cell with infer=True returns,
\* for either value of direct, the cell that direct mode (direct=True,
\* infer=False) returns.
C8_InferNoOpAnyDirect ==
    (InferCallDone /\ call.infer /\ ~StructurallyEmpty(call.root_cell)) =>
        /\ err = "none"
        /\ out = <<_infer_cell(env.table, call.root_cell, call.axis, TRUE, FALSE).value>>

\* Every cell the extractor looks at for this row/column n-gram call has
\* content.
AllAlignedHaveContent ==
    \A cell \in CellsOf(env.table) :
        is_axis_aligned(env.sents[call.c.args[1].parent], cell,
                        IF call.op = "get_row_ngrams" THEN "row" ELSE "col")
            => ~StructurallyEmpty(cell)

\* C8, amended: on a cell with content, _infer_cell with infer=True and
\* direct=True returns the cell itself, as direct mode does, and so the
\* row/column n-grams of a span whose aligned cells all have content are
\* those of direct mode; with direct=False it returns a phantom cell without
\* phrases.
C8_InferNoOpWhenDirect ==
    /\ (InferCallDone /\ call.infer /\ ~StructurallyEmpty(call.root_cell)) =>
            /\ err = "none"
            /\ call.direct =>
                 /\ out = <<call.root_cell>>
                 /\ out = <<_infer_cell(env.table, call.root_cell, call.axis, TRUE,
                                        FALSE).value>>
            /\ ~call.direct => out = <<PhantomCell>>
    /\ (/\ call.op \in {"get_row_ngrams", "get_col_ngrams"} /\ pc = "done"
        /\ call.infer /\ call.direct /\ AllAlignedHaveContent) =>
            /\ err = "none"
            /\ out = GenBody([call EXCEPT !.infer = FALSE]).items

\* _infer_cell has returned for a cell with content that is not at the edge,
\* with infer=True and direct=True.
C8_Witness ==
    /\ InferCallDone /\ call.infer /\ call.direct
    /\ ~StructurallyEmpty(call.root_cell)
    /\ call.axis = "col" /\ call.root_cell.row_start > 0
    /\ out = <<call.root_cell>>

\* The cell is at the table edge along the axis _infer_cell walks.
AtEdge(cell, axis) ==
    IF axis = "col" THEN cell.row_start = 0 ELSE cell.col_start = 0

\* C9 as stated: with infer=True, an empty cell at the edge is replaced by a
\* phantom cell without phrases, and no neighbour is looked up.
C9_EdgeEmptyIsPhantom ==
    (/\ InferCallDone /\ call.infer
     /\ StructurallyEmpty(call.root_cell) /\ AtEdge(call.root_cell, call.axis)) =>
        /\ err = "none"
        /\ lookups = 0
        /\ out = <<PhantomCell>>

\* C9, amended: with infer=True, an empty cell at the edge is replaced by a
\* phantom cell when direct=False and returned as it is when direct=True;
\* either way the result has no phrases, no neighbour is looked up and
\* nothing is raised.
C9_EdgeEmptyNoLookup ==
    (/\ InferCallDone /\ call.infer
     /\ StructurallyEmpty(call.root_cell) /\ AtEdge(call.root_cell, call.axis)) =>
        /\ err = "none"
        /\ lookups = 0
        /\ out = <<IF call.direct THEN call.root_cell ELSE PhantomCell>>
        /\ out[1].phrases = <<>>

\* _infer_cell has returned for an empty cell in the first row, walking up,
\* in a table that has a second row, with direct=True.
C9_Witness ==
    /\ InferCallDone /\ call.infer /\ call.direct
    /\ StructurallyEmpty(call.root_cell)
    /\ call.axis = "col" /\ call.root_cell.row_start = 0
    /\ \E cell \in CellsOf(env.table) : cell.row_start > 0
    /\ lookups = 0

\* The cells k positions before `cell` on its line: in its column, k rows up,
\* when the walk is along "col"; in its row, k columns left, along "row".
Before(table, cell, axis, k) ==
    {other \in CellsOf(table) :
        IF axis = "col"
        THEN other.col = cell.col /\ other.row.position = cell.row.position - k
        ELSE other.row = cell.row /\ other.col.position = cell.col.position - k}

\* `target` is the nearest cell with content before `cell`, k steps away, and
\* every position between them holds an empty cell.
NearestWithContent(table, cell, axis, k, target) ==
    /\ target \in Before(table, cell, axis, k)
    /\ ~StructurallyEmpty(target)
    /\ \A j \in 1..(k - 1) :
            \E mid \in Before(table, cell, axis, j) : StructurallyEmpty(mid)

\* C10: with infer=True, an empty cell that is not at the edge is replaced by
\* the nearest cell with content found by stepping one position at a time
\* towards the origin (up for row n-grams, left for column n-grams), the
\* empty cells on the way skipped; the row (column) n-grams of a span then
\* hold the words of that cell's phrases.
C10_NearestNonEmpty ==
    /\ (/\ InferCallDone /\ call.infer
        /\ StructurallyEmpty(call.root_cell) /\ ~AtEdge(call.root_cell, call.axis)) =>
            \A k \in 1..MaxCells, target \in CellsOf(env.table) :
                NearestWithContent(env.table, call.root_cell, call.axis, k, target) =>
                    /\ err = "none"
                    /\ out = <<target>>
                    /\ lookups = k
    /\ (/\ call.op \in {"get_row_ngrams", "get_col_ngrams"} /\ pc = "done"
        /\ call.infer /\ err = "none") =>
            LET along == IF call.op = "get_row_ngrams" THEN "row" ELSE "col"
                walk == IF call.op = "get_row_ngrams" THEN "col" ELSE "row"
                root_phrase == env.sents[call.c.args[1].parent]
            IN  \A cell \in CellsOf(env.table), target \in CellsOf(env.table),
                   k \in 1..MaxCells :
                    (/\ is_axis_aligned(root_phrase, cell, along)
                     /\ StructurallyEmpty(cell) /\ ~AtEdge(cell, walk)
                     /\ NearestWithContent(env.table, cell, walk, k, target)
                     /\ target.phrases # <<root_phrase>>) =>
                        \A w \in Elems(target.phrases[1].words) :
                            lower_str(w) \in Elems(Texts(out))

\* _infer_cell has returned the cell two rows above an empty cell, the empty
\* cell between them skipped.
C10_Witness ==
    /\ InferCallDone /\ call.infer /\ call.axis = "col"
    /\ StructurallyEmpty(call.root_cell)
    /\ lookups = 2
    /\ Len(out) = 1 /\ out[1].kind = "Cell" /\ ~StructurallyEmpty(out[1])
    /\ out[1].row_start > 0

\* The index of the cell's position along the axis _infer_cell walks.
WalkPosition(cell, axis) ==
    IF axis = "col" THEN cell.row.position ELSE cell.col.position

\* C11: whatever the table and the starting cell, ragged rows and cells
\* spanning two rows or columns included, _infer_cell in infer mode returns a
\* cell after at most as many neighbour lookups as the cell's position index
\* along the axis it walks, and never takes element 0 of an empty neighbour
\* list.
C11_InferStaysInRange ==
    (InferCallDone /\ call.infer) =>
        /\ err = "none"
        /\ Len(out) = 1
        /\ lookups <= WalkPosition(call.root_cell, call.axis)

(***************************************************************************)
(* Claims about the extractors of a span's table context, checked under    *)
(* SpecExtract.                                                            *)
(***************************************************************************)

\* The phrase the span of the call lies in, and its cell.
SpanPhrase == env.sents[call.c.args[1].parent]
SpanCell == CellOf(env.table, SpanPhrase)

\* The cells other than `root` whose rows (columns) overlap those of `root`.
AlignedWith(root, axis) ==
    {cell \in CellsOf(env.table) : cell # root /\ is_axis_aligned(root, cell, axis)}

\* The cells of S closest to the table origin along the other axis.
Closest(S, axis) ==
    {cell \in S : \A other \in S :
        cell[_other_axis(axis) \o "_start"] <= other[_other_axis(axis) \o "_start"]}

\* The 1-grams of a cell's phrase, lower-cased: what the extractors yield for
\* it with the defaults of their signature.
LowerWords(cell) ==
    IF cell.phrases = <<>> THEN <<>>
    ELSE [k \in 1..Len(cell.phrases[1].words) |-> lower_str(cell.phrases[1].words[k])]

HeadCallDone ==
    /\ call.op = "get_head_ngrams" /\ pc = "done"
    /\ call.axis # "None"
    /\ SpanPhrase.cell # None

\* C12 as stated: get_head_ngrams on one axis yields exactly the n-grams of
\* the phrases of the aligned cell closest to the table origin along the
\* other axis (nothing when no cell is aligned), with infer=False and with
\* infer=True alike.
C12_HeadIsClosestAligned ==
    HeadCallDone =>
        /\ err = "none"
        /\ IF AlignedWith(SpanCell, call.axis) = {} THEN out = <<>>
           ELSE \E head \in Closest(AlignedWith(SpanCell, call.axis), call.axis) :
                    Texts(out) = LowerWords(head)

\* The cell that inference puts in the place of an aligned cell of
\* get_head_ngrams: _infer_cell along the other axis, direct=True.
Inferred(cell) == _infer_cell(env.table, cell, _other_axis(call.axis), TRUE, TRUE)

\* C12, amended: with infer=False get_head_ngrams yields exactly the n-grams
\* of the closest aligned cell.  With infer=True every aligned cell is first
\* replaced by what cell inference gives for it, and get_head_ngrams yields
\* exactly the n-grams of the replacement of the closest aligned cell; if
\* the inference of an aligned cell meets a position without a cell, it
\* raises IndexError and yields nothing.
C12_HeadIsClosestAlignedOrInferred ==
    HeadCallDone =>
        LET aligned == AlignedWith(SpanCell, call.axis)
        IN  IF ~call.infer
            THEN /\ err = "none"
                 /\ IF aligned = {} THEN out = <<>>
                    ELSE \E head \in Closest(aligned, call.axis) :
                            Texts(out) = LowerWords(head)
            ELSE IF \E cell \in aligned : Inferred(cell).raises # "none"
            THEN err = "IndexError" /\ out = <<>>
            ELSE /\ err = "none"
                 /\ IF aligned = {} THEN out = <<>>
                    ELSE \E head \in Closest(aligned, call.axis) :
                            Texts(out) = LowerWords(Inferred(head).value)

\* get_head_ngrams with infer=True has yielded the words of the cell above
\* the closest aligned cell, which is empty, in a row with a second aligned
\* cell that has words of its own.
C12_Witness ==
    /\ HeadCallDone /\ call.infer /\ call.axis = "row" /\ err = "none"
    /\ Len(out) = 2
    /\ \E head \in Closest(AlignedWith(SpanCell, call.axis), call.axis) :
            /\ StructurallyEmpty(head)
            /\ Texts(out) = LowerWords(Inferred(head).value)
    /\ \E cell \in AlignedWith(SpanCell, call.axis) : ~StructurallyEmpty(cell)

\* The distance between the rows (columns) of a phrase and of a cell: 0 when
\* their ranges overlap.
AxisGap(x, y, axis) ==
    IF is_axis_aligned(x, y, axis) THEN 0
    ELSE Min(Abs(x[axis \o "_start"] - y[axis \o "_end"]),
             Abs(y[axis \o "_start"] - x[axis \o "_end"]))

\* The phrases of the table that lie within dist of the cell along exactly
\* one axis, and in line with it along the other.
NeighborPhrases(root_cell, dist) ==
    {phrase \in Elems(PhrasesOf(env.table)) :
        LET row_gap == AxisGap(phrase, root_cell, "row")
            col_gap == AxisGap(phrase, root_cell, "col")
        IN  /\ (row_gap = 0) # (col_gap = 0)
            /\ row_gap + col_gap <= dist}

\* The lower-cased words of a phrase.
LowerWordsOf(phrase) == {lower_str(phrase.words[k]) : k \in 1..Len(phrase.words)}

\* C13: for a span in a table cell, get_neighbor_cell_ngrams runs to its end
\* without raising, and what it yields is an n-gram of the span's own phrase
\* or of a phrase at most dist cells away along exactly one axis; no
\* diagonal and no farther cell contributes.
C13_NeighborsOnOneAxisWithinDist ==
    (/\ call.op = "get_neighbor_cell_ngrams" /\ pc = "done"
     /\ SpanPhrase.cell # None) =>
        /\ err = "none"
        /\ \A k \in 1..Len(out) :
                \/ out[k].text \in LowerWordsOf(SpanPhrase)
                \/ \E phrase \in NeighborPhrases(SpanCell, call.dist) :
                        out[k].text \in LowerWordsOf(phrase)

TableExtractors ==
    {"get_head_ngrams", "get_row_ngrams", "get_col_ngrams", "get_cell_ngrams",
     "get_neighbor_cell_ngrams"}

\* The lower-cased words of the phrases that lie in a cell of the table.
TableWords == UNION {LowerWordsOf(phrase) : phrase \in Elems(PhrasesOf(env.table))}

\* C20: for a span whose phrase has no cell, none of the table extractors
\* raises, get_head_ngrams yields nothing, and get_row_ngrams,
\* get_col_ngrams, get_cell_ngrams and get_neighbor_cell_ngrams yield the
\* n-grams of the span's own phrase only, none taken from a cell of the
\* table.
C20_NoCellDegrades ==
    (call.op \in TableExtractors /\ SpanPhrase.cell = None) =>
        /\ err = "none"
        /\ call.op = "get_head_ngrams" => out = <<>>
        /\ \A k \in 1..Len(out) :
                /\ out[k].text \in LowerWordsOf(SpanPhrase)
                /\ out[k].text \notin TableWords
        /\ (pc = "done" /\ call.op # "get_head_ngrams") =>
                Len(out) = Len(SpanPhrase.words) - 1

\* get_row_ngrams has run to its end on a span of the phrase outside the
\* table, next to a table of two phrases in one row, and has yielded the
\* other word of the phrase.
C20_Witness ==
    /\ call.op = "get_row_ngrams" /\ pc = "done" /\ err = "none"
    /\ SpanPhrase.cell = None
    /\ Len(out) = 1
    /\ \E p \in Elems(PhrasesOf(env.table)), q \in Elems(PhrasesOf(env.table)) :
            p # q /\ p.row_start = q.row_start

(***************************************************************************)
(* The visual-alignment pass.  A document is                               *)
(*   [phrases, _visual_features],                                          *)
(* _visual_features telling whether the document has the attribute of     *)
(* that name (hasattr), and a phrase is                                    *)
(*   [page, top, bottom, left, right, lemmas, has_aligned_lemmas,          *)
(*    _aligned_lemmas],                                                   *)
(* top, bottom, left and right being the lists of its tokens' coordinates *)
(* (empty when the phrase has none) and has_aligned_lemmas telling whether *)
(* the phrase has the attribute _aligned_lemmas.  The pass also leaves     *)
(* bbox, yc, x0, x1 and xc on the phrases it has reached; nothing reads    *)
(* them afterwards and the model computes them without keeping them.       *)
(***************************************************************************)

\* min(list), max(list)
RECURSIVE MinOf(_)
MinOf(s) == IF Len(s) = 1 THEN s[1] ELSE Min(s[1], MinOf(Tail(s)))

RECURSIVE MaxOf(_)
MaxOf(s) == IF Len(s) = 1 THEN s[1] ELSE Max(s[1], MaxOf(Tail(s)))

\* _bbox_from_span(span) on a phrase: the box around its tokens' boxes, None
\* when it has no coordinates.
_bbox_from_span(span) ==
    IF Len(span.top) > 0
    THEN [kind |-> "bbox", top |-> MinOf(span.top), bottom |-> MaxOf(span.bottom),
          left |-> MinOf(span.left), right |-> MaxOf(span.right)]
    ELSE None

\* str.isalpha() on ASCII: not empty, and letters only.
isalpha(s) ==
    /\ Len(s) > 0
    /\ \A i \in 1..Len(s) : s[i] \in (65..90) \cup (97..122)

\* `len(p.lemmas) < 7`: a phrase of this many lemmas or more adds nothing to
\* the context of its group.
ContextLemmaLimit == 7

\* The group loop of _assign_alignment_features with the phrase's own lemmas
\* put into the context before the phrase takes the context.
RECURSIVE AssignGroup_self(_, _, _, _, _)
AssignGroup_self(aligned, phrases, group, context_lemmas, align_type) ==
    IF Len(group) = 0 THEN aligned
    ELSE LET p == group[1].index
             new_lemmas == {lower_str(lemma) :
                               lemma \in {l \in {phrases[p].lemmas[k] :
                                                    k \in 1..Len(phrases[p].lemmas)} :
                                              isalpha(l)}}
             context_after ==
                 IF Len(phrases[p].lemmas) < ContextLemmaLimit
                 THEN context_lemmas \cup new_lemmas
                          \cup {align_type \o lemma : lemma \in new_lemmas}
                 ELSE context_lemmas
         IN  AssignGroup_self([aligned EXCEPT ![p] = @ \cup context_after], phrases,
                              Tail(group), context_after, align_type)

\* The group loop with the test `len(p.lemmas) <= 7`.
RECURSIVE AssignGroup_le(_, _, _, _, _)
AssignGroup_le(aligned, phrases, group, context_lemmas, align_type) ==
    IF Len(group) = 0 THEN aligned
    ELSE LET p == group[1].index
             new_lemmas == {lower_str(lemma) :
                               lemma \in {l \in {phrases[p].lemmas[k] :
                                                    k \in 1..Len(phrases[p].lemmas)} :
                                              isalpha(l)}}
             context_after ==
                 IF Len(phrases[p].lemmas) <= ContextLemmaLimit
                 THEN context_lemmas \cup new_lemmas
                          \cup {align_type \o lemma : lemma \in new_lemmas}
                 ELSE context_lemmas
         IN  AssignGroup_le([aligned EXCEPT ![p] = @ \cup context_lemmas], phrases,
                            Tail(group), context_after, align_type)

\* The loop `for p in phrases` of _assign_alignment_features over one group:
\* `group` holds the phrases still to come, as indices into the document's
\* phrases, `aligned` the _aligned_lemmas of every phrase.
RECURSIVE AssignGroup(_, _, _, _, _)
AssignGroup(aligned, phrases, group, context_lemmas, align_type) ==
    IF Len(group) = 0 THEN aligned
    ELSE LET p == group[1].index
             new_lemmas == {lower_str(lemma) :
                               lemma \in {l \in {phrases[p].lemmas[k] :
                                                    k \in 1..Len(phrases[p].lemmas)} :
                                              isalpha(l)}}
             context_after ==
                 IF Len(phrases[p].lemmas) < ContextLemmaLimit
                 THEN context_lemmas \cup new_lemmas
                          \cup {align_type \o lemma : lemma \in new_lemmas}
                 ELSE context_lemmas
         IN  AssignGroup([aligned EXCEPT ![p] = @ \cup context_lemmas], phrases,
                         Tail(group), context_after, align_type)

\* _assign_alignment_features(phrases_by_key, align_type): phrases_by_key is
\* the dictionary from a key to its group.  iteritems() gives the keys in the
\* order of the hash table, which is no order of the keys' values: `key` is
\* any key not yet visited.  The context starts empty for every group and a
\* phrase is in one group only, so a turn of the loop changes the sets of
\* its own group's phrases and reads nothing of another group's: every
\* order of the keys gives the same sets.
RECURSIVE _assign_alignment_features(_, _, _, _)
_assign_alignment_features(aligned, phrases, phrases_by_key, align_type) ==
    IF DOMAIN phrases_by_key = {} THEN aligned
    ELSE LET key == CHOOSE k \in DOMAIN phrases_by_key : TRUE
             group == phrases_by_key[key]
             after == IF Len(group) = 1 THEN aligned
                      ELSE AssignGroup(aligned, phrases, group, {}, align_type)
         IN  _assign_alignment_features(
                 after, phrases,
                 [k \in DOMAIN phrases_by_key \ {key} |-> phrases_by_key[k]],
                 align_type)

\* The phrase at index i with the keys the pass computes for it: the vertical
\* centre, the left and right edges and the horizontal centre of its box (the
\* coordinates are integers, and / on integers rounds down).
Keyed(phrases, i) ==
    LET bbox == _bbox_from_span(phrases[i])
    IN  [index |-> i,
         yc |-> (bbox.top + bbox.bottom) \div 2,
         x0 |-> bbox.left,
         x1 |-> bbox.right,
         xc |-> (bbox.left + bbox.right) \div 2]

\* yc_aligned, x0_aligned, x1_aligned, xc_aligned: the dictionary from a key
\* `attr` to the phrases of a page that have it, each list in the order of
\* the page, then sorted by the key (which is the same for all of a list).
GroupsBy(items, attr) ==
    [key \in {items[k][attr] : k \in 1..Len(items)} |->
        sorted(SelectSeq(items, LAMBDA item : item[attr] = key), attr)]

\* The four calls of _assign_alignment_features that end a turn of the loop
\* over the pages (lines 507-514), in their order: the key the groups are
\* formed by and the prefix of the tags.
Alignments ==
    << [attr |-> "yc", align_type |-> <<89, 95>>],                        \* Y_
       [attr |-> "x0", align_type |-> <<76, 69, 70, 84, 95>>],            \* LEFT_
       [attr |-> "x1", align_type |-> <<82, 73, 71, 72, 84, 95>>],        \* RIGHT_
       [attr |-> "xc", align_type |-> <<67, 69, 78, 84, 69, 82, 95>>] >>  \* CENTER_

\* The calls `todo` made one after the other on the phrases of a page.
RECURSIVE AssignAlignments(_, _, _, _)
AssignAlignments(aligned, phrases, items, todo) ==
    IF Len(todo) = 0 THEN aligned
    ELSE AssignAlignments(
             _assign_alignment_features(aligned, phrases,
                                        GroupsBy(items, todo[1].attr),
                                        todo[1].align_type),
             phrases, items, Tail(todo))

\* One turn of the loop over the pages (lines 490-514).  `phrase.bbox.top` of
\* a phrase whose box is None raises AttributeError before any group of the
\* page is formed.
ProcessPage(aligned, phrases, page) ==
    LET on_page == SelectSeq([i \in 1..Len(phrases) |-> i],
                             LAMBDA i : phrases[i].page = page)
    IN  IF \E k \in 1..Len(on_page) : _bbox_from_span(phrases[on_page[k]]) = None
        THEN [aligned |-> aligned, raises |-> "AttributeError"]
        ELSE [aligned |-> AssignAlignments(
                              aligned, phrases,
                              [k \in 1..Len(on_page) |-> Keyed(phrases, on_page[k])],
                              Alignments),
              raises |-> "none"]

\* for page, phrases in phrase_by_page.iteritems(): `pages` is the order the
\* dictionary gives the pages in.
RECURSIVE ProcessPages(_, _, _)
ProcessPages(aligned, phrases, pages) ==
    IF Len(pages) = 0 THEN [aligned |-> aligned, raises |-> "none"]
    ELSE LET r == ProcessPage(aligned, phrases, pages[1])
         IN  IF r.raises # "none" THEN r
             ELSE ProcessPages(r.aligned, phrases, Tail(pages))

\* _preprocess_visual_features without `doc._visual_features = True`.
_preprocess_visual_features_noflag(doc, pages) ==
    IF doc._visual_features THEN Value(doc, 0)
    ELSE LET r == ProcessPages([i \in 1..Len(doc.phrases) |-> {}], doc.phrases, pages)
             after == [_visual_features |-> FALSE,
                       phrases |-> [i \in 1..Len(doc.phrases) |->
                                       [doc.phrases[i] EXCEPT
                                           !.has_aligned_lemmas = TRUE,
                                           !._aligned_lemmas = r.aligned[i]]]]
         IN  [value |-> after, raises |-> r.raises, depth |-> Len(doc.phrases)]

\* _preprocess_visual_features(doc): the document after the call and the
\* exception raised, if any; depth is the number of phrases whose
\* _aligned_lemmas the call has set to set(): none when the flag was there.
\* The flag is set before the work, and every _aligned_lemmas is set before
\* the first page is looked at, so both stay when a page raises.
_preprocess_visual_features(doc, pages) ==
    IF doc._visual_features THEN Value(doc, 0)
    ELSE LET r == ProcessPages([i \in 1..Len(doc.phrases) |-> {}], doc.phrases, pages)
             after == [_visual_features |-> TRUE,
                       phrases |-> [i \in 1..Len(doc.phrases) |->
                                       [doc.phrases[i] EXCEPT
                                           !.has_aligned_lemmas = TRUE,
                                           !._aligned_lemmas = r.aligned[i]]]]
         IN  [value |-> after, raises |-> r.raises, depth |-> Len(doc.phrases)]

\* The orders a dictionary may give the pages of a document in.
RECURSIVE Orders(_)
Orders(S) ==
    IF S = {} THEN {<<>>}
    ELSE UNION {{<<x>> \o rest : rest \in Orders(S \ {x})} : x \in S}

PageOrders(doc) == Orders({doc.phrases[i].page : i \in 1..Len(doc.phrases)})

\* _preprocess_visual_features(doc), called on its own; it returns None.
CallPreprocessVisualFeatures ==
    /\ pc = "idle"
    /\ \E pages \in PageOrders(env.doc) :
        LET r == _preprocess_visual_features(env.doc, pages)
        IN  /\ env' = [env EXCEPT !.doc = r.value]
            /\ err' = r.raises
            /\ lookups' = r.depth
    /\ call' = [op |-> "_preprocess_visual_features"]
    /\ pc' = "done"
    /\ out' = <<>>
    /\ pos' = 0

\* get_visual_aligned_lemmas(span): a generator object, the pass not run.
CallVisualAlignedLemmas ==
    \E i \in 1..Len(env.doc.phrases) :
        NewGenerator([op |-> "get_visual_aligned_lemmas", span |-> [parent |-> i]])

\* next(g) on the generator of get_visual_aligned_lemmas(span).  The first
\* next runs the body from its first line: the pass, then the loop over the
\* phrase's _aligned_lemmas up to its first yield; a later next resumes the
\* loop where it stopped.  out is the items yielded so far.  A set gives its
\* elements in the order of its hash table, which is no order of the
\* strings: the next item is any element not yet given.  The body ends when
\* the pass raises or the set has no element left.
IterateVisualAlignedLemmas ==
    /\ pc \in {"created", "running"}
    /\ call.op = "get_visual_aligned_lemmas"
    /\ \E pages \in PageOrders(env.doc) :
        LET r == IF pc = "created"
                 THEN _preprocess_visual_features(env.doc, pages)
                 ELSE Value(env.doc, lookups)
            rest == r.value.phrases[call.span.parent]._aligned_lemmas
                        \ {out[k] : k \in 1..Len(out)}
        IN  /\ env' = [env EXCEPT !.doc = r.value]
            /\ lookups' = r.depth
            /\ err' = r.raises
            /\ IF r.raises # "none" \/ rest = {}
               THEN /\ pc' = "done"
                    /\ out' = out
               ELSE /\ pc' = "running"
                    /\ \E aligned_lemma \in rest : out' = Append(out, aligned_lemma)
    /\ pos' = Len(out')
    /\ call' = call

\* get_aligned_lemmas(span): set(get_visual_aligned_lemmas(span)), the
\* generator made and run to its end within the call; out is the set.
CallAlignedLemmas ==
    /\ pc = "idle"
    /\ \E i \in 1..Len(env.doc.phrases), pages \in PageOrders(env.doc) :
        LET r == _preprocess_visual_features(env.doc, pages)
        IN  /\ env' = [env EXCEPT !.doc = r.value]
            /\ err' = r.raises
            /\ lookups' = r.depth
            /\ out' = IF r.raises # "none" THEN <<>>
                      ELSE <<r.value.phrases[i]._aligned_lemmas>>
            /\ call' = [op |-> "get_aligned_lemmas", span |-> [parent |-> i]]
    /\ pc' = "done"
    /\ pos' = 0

(***************************************************************************)
(* The pass on documents of up to MaxPhrases phrases.  A phrase lies on    *)
(* page 1 or 2, has one of four boxes or no coordinates, and six or seven  *)
(* lemmas; no two phrases of a document lie at the same place.  Boxes 1, 2 *)
(* and 3 have one vertical centre (after rounding), and boxes 1 and 2 one  *)
(* left edge; box 4 shares its right edge and its horizontal centre (after *)
(* rounding) with box 1.  The lemmas of the phrase at index i are a        *)
(* capitalised word, which differs from the word of the phrases at the     *)
(* other indices, and copies of a number.                                  *)
(***************************************************************************)
NoCoordinates == [top |-> <<>>, bottom |-> <<>>, left |-> <<>>, right |-> <<>>]

Boxes ==
    << [top |-> <<0, 0>>, bottom |-> <<2, 2>>, left |-> <<2, 4>>, right |-> <<3, 6>>],
       [top |-> <<1>>, bottom |-> <<2>>, left |-> <<2>>, right |-> <<4>>],
       [top |-> <<1>>, bottom |-> <<1>>, left |-> <<0>>, right |-> <<1>>],
       [top |-> <<5>>, bottom |-> <<5>>, left |-> <<3>>, right |-> <<6>>] >>

\* The phrases a document is made of: on page 1, box 1, box 3 or no
\* coordinates with six lemmas, box 2 with six or seven; on page 2, box 1 or
\* box 4 with six.
Kinds ==
    {[page |-> 1, box |-> b, count |-> ContextLemmaLimit - 1] :
        b \in {Boxes[1], Boxes[2], Boxes[3], NoCoordinates}}
    \cup {[page |-> 1, box |-> Boxes[2], count |-> ContextLemmaLimit]}
    \cup {[page |-> 2, box |-> b, count |-> ContextLemmaLimit - 1] :
            b \in {Boxes[1], Boxes[4]}}

LemmasAt(i, n) ==
    [k \in 1..n |-> IF k = 1 THEN <<64 + i, 98>>            \* Ab, Bb, Cb, ...
                    ELSE <<55>>]                            \* 7

PhraseOf(i, kind) ==
    [page |-> kind.page,
     top |-> kind.box.top, bottom |-> kind.box.bottom,
     left |-> kind.box.left, right |-> kind.box.right,
     lemmas |-> LemmasAt(i, kind.count),
     has_aligned_lemmas |-> FALSE, _aligned_lemmas |-> {}]

\* No two phrases of a document are at one place of one page.
Documents ==
    LET Apart(kinds) ==
            \A i, j \in DOMAIN kinds :
                i # j => kinds[i].page # kinds[j].page \/ kinds[i].box # kinds[j].box
    IN
    UNION {
        {[_visual_features |-> FALSE,
          phrases |-> [i \in 1..len |-> PhraseOf(i, kinds[i])]] :
            kinds \in {ks \in [1..len -> Kinds] : Apart(ks)}} :
        len \in 1..MaxPhrases}

InitVisual ==
    /\ env \in {[doc |-> d] : d \in Documents}
    /\ call = NoCall
    /\ pc = "idle"
    /\ pos = 0
    /\ out = <<>>
    /\ err = "none"
    /\ lookups = 0

NextVisual ==
    \/ CallPreprocessVisualFeatures
    \/ CallVisualAlignedLemmas
    \/ IterateVisualAlignedLemmas
    \/ CallAlignedLemmas
    \/ Return

SpecVisual == InitVisual /\ [][NextVisual]_vars

(***************************************************************************)
(* Claims about the visual-alignment pass, checked under SpecVisual.       *)
(***************************************************************************)
VisualQueries == {"get_visual_aligned_lemmas", "get_aligned_lemmas"}

VisualCalls == VisualQueries \cup {"_preprocess_visual_features"}

\* The items a generator has yielded so far.
Yielded(items) == {items[k] : k \in 1..Len(items)}

\* C14: the pass is memoized by the flag on the document.  Every call of
\* _preprocess_visual_features, get_visual_aligned_lemmas (iterated to its
\* end) or get_aligned_lemmas leaves the flag set; once it is set, no step
\* changes the document (the flag and every phrase's _aligned_lemmas stay
\* as they are), a further call sets no phrase's _aligned_lemmas anew, and a
\* query for a span returns the set its phrase already had:
\* get_aligned_lemmas as a set, get_visual_aligned_lemmas one element at a
\* time, each once, in some order.
C14_PassIsMemoized ==
    [][/\ (pc' = "done" /\ call'.op \in VisualCalls) => env'.doc._visual_features
       /\ env.doc._visual_features =>
            /\ env'.doc = env.doc
            /\ (pc # "done" /\ pc' \in {"running", "done"}) =>
                    LET had == env.doc.phrases[call'.span.parent]._aligned_lemmas
                    IN  /\ lookups' = IF pc = "running" THEN lookups ELSE 0
                        /\ err' = "none"
                        /\ call'.op = "get_aligned_lemmas" => out' = <<had>>
                        /\ call'.op = "get_visual_aligned_lemmas" =>
                                /\ Yielded(out') \subseteq had
                                /\ Len(out') = Cardinality(Yielded(out'))
                                /\ pc' = "done" => Yielded(out') = had
      ]_vars

\* A generator for the third phrase of a document has been iterated to its
\* end on the sets of an earlier pass: the call has set no _aligned_lemmas,
\* and has yielded the lemmas of the phrase's set, more than one.
C14_Witness ==
    /\ pc = "done" /\ call.op = "get_visual_aligned_lemmas"
    /\ env.doc._visual_features
    /\ lookups = 0 /\ err = "none"
    /\ call.span.parent = 3
    /\ Len(out) > 1
    /\ Yielded(out) = env.doc.phrases[3]._aligned_lemmas

Phrases == env.doc.phrases

HasCoordinates(i) == Len(Phrases[i].top) > 0

\* The lower-cased alphabetic lemmas of the phrase at index i.
AlphaLemmas(i) ==
    {lower_str(Phrases[i].lemmas[k]) :
        k \in {j \in 1..Len(Phrases[i].lemmas) : isalpha(Phrases[i].lemmas[j])}}

AlignTypes == {"yc", "x0", "x1", "xc"}

\* Y_, LEFT_, RIGHT_, CENTER_
TagOf(type) ==
    CASE type = "yc" -> <<89, 95>>
      [] type = "x0" -> <<76, 69, 70, 84, 95>>
      [] type = "x1" -> <<82, 73, 71, 72, 84, 95>>
      [] type = "xc" -> <<67, 69, 78, 84, 69, 82, 95>>

\* What the phrase at index i can give to a later phrase of a group of the
\* type: its alphabetic lemmas, lower-cased, and a tagged copy of each.
Contribution(i, type) ==
    AlphaLemmas(i) \cup {TagOf(type) \o lemma : lemma \in AlphaLemmas(i)}

\* C15: a phrase without coordinates is skipped without error: a call that
\* runs the pass raises nothing, the phrase has an _aligned_lemmas set and
\* the set is empty, and the phrase gives no lemma to another phrase.
C15_NoCoordinatesSkipped ==
    (pc = "done" /\ call.op \in VisualCalls) =>
        \A i \in 1..Len(Phrases) :
            ~HasCoordinates(i) =>
                /\ err = "none"
                /\ Phrases[i].has_aligned_lemmas
                /\ Phrases[i]._aligned_lemmas = {}
                /\ \A j \in 1..Len(Phrases), type \in AlignTypes :
                        Phrases[j]._aligned_lemmas \cap Contribution(i, type) = {}

\* The phrases at i and j lie on one page, both have coordinates, and they
\* have the same key of the type: they are in one alignment group.
SameGroup(i, j, type) ==
    /\ Phrases[i].page = Phrases[j].page
    /\ HasCoordinates(i) /\ HasCoordinates(j)
    /\ Keyed(Phrases, i)[type] = Keyed(Phrases, j)[type]

\* C16: every element of a phrase's _aligned_lemmas is a lemma, or a tagged
\* lemma, of a phrase of the same page that shares an alignment key with it
\* and comes before it in the group (the groups keep the order of the
\* document); a tagged lemma comes from a group of the tag's type.  So no
\* phrase receives a lemma from a later phrase, and the first phrase of a
\* group receives nothing from that group.
C16_ContextFromEarlierOnly ==
    \A p \in 1..Len(Phrases) :
        /\ \A e \in Phrases[p]._aligned_lemmas :
                \E q \in 1..(p - 1), type \in AlignTypes :
                    /\ SameGroup(q, p, type)
                    /\ e \in Contribution(q, type)
        /\ \A type \in AlignTypes :
                (\A q \in 1..(p - 1) : ~SameGroup(q, p, type)) =>
                    \A q \in 1..Len(Phrases) :
                        {TagOf(type) \o lemma : lemma \in AlphaLemmas(q)}
                            \cap Phrases[p]._aligned_lemmas = {}

\* The pass has run on three phrases of one group, each with fewer than 7
\* lemmas: the second has received lemmas of the first and none of the
\* third, the first none at all.
C16_Witness ==
    /\ env.doc._visual_features /\ Len(Phrases) = 3
    /\ \A i \in 1..3 : Len(Phrases[i].lemmas) < ContextLemmaLimit
    /\ SameGroup(1, 2, "yc") /\ SameGroup(2, 3, "yc")
    /\ Phrases[1]._aligned_lemmas = {}
    /\ AlphaLemmas(1) \subseteq Phrases[2]._aligned_lemmas
    /\ AlphaLemmas(3) \cap Phrases[2]._aligned_lemmas = {}
    /\ AlphaLemmas(2) \subseteq Phrases[3]._aligned_lemmas

\* What the phrase at index p takes from its groups: for every type, the
\* contributions of the phrases before it in its group of that type that
\* have fewer than 7 lemmas.
Absorbed(p) ==
    UNION {UNION {IF SameGroup(q, p, type) /\ Len(Phrases[q].lemmas) < ContextLemmaLimit
                  THEN Contribution(q, type) ELSE {} : q \in 1..(p - 1)} :
           type \in AlignTypes}

PagesOf(doc) == {doc.phrases[i].page : i \in 1..Len(doc.phrases)}

\* C17: after the pass, the _aligned_lemmas of a phrase is exactly what the
\* phrases before it in its groups have contributed, and a phrase
\* contributes iff it has fewer than 7 lemmas: then its lower-cased
\* alphabetic lemmas and one copy of each with the tag of the group's type
\* (Y_, LEFT_, RIGHT_, CENTER_).  A phrase of 7 lemmas or more takes the
\* context and adds nothing, and a phrase alone in its groups keeps an empty
\* set.  (A page the pass has not worked on, because a phrase without
\* coordinates has stopped it, has empty sets only.)
C17_ContributesIffFewerThanSeven ==
    env.doc._visual_features =>
        \A page \in PagesOf(env.doc) :
            LET on_page == {p \in 1..Len(Phrases) : Phrases[p].page = page}
            IN  \/ \A p \in on_page : Phrases[p]._aligned_lemmas = Absorbed(p)
                \/ /\ \E i \in 1..Len(Phrases) : ~HasCoordinates(i)
                   /\ \A p \in on_page : Phrases[p]._aligned_lemmas = {}

\* The pass has run on three phrases of one group, the first with 6 lemmas,
\* the second with 7: the second has taken the lemmas of the first and their
\* Y_ copies, the third those of the first and nothing of the second.
C17_Witness ==
    /\ env.doc._visual_features /\ Len(Phrases) = 3
    /\ Len(Phrases[1].lemmas) = ContextLemmaLimit - 1
    /\ Len(Phrases[2].lemmas) = ContextLemmaLimit
    /\ SameGroup(1, 2, "yc") /\ SameGroup(2, 3, "yc")
    /\ Contribution(1, "yc") \subseteq Phrases[2]._aligned_lemmas
    /\ Contribution(1, "yc") \subseteq Phrases[3]._aligned_lemmas
    /\ \A type \in AlignTypes : Contribution(2, type) \cap Phrases[3]._aligned_lemmas = {}
    /\ Cardinality(Contribution(1, "yc")) = 2

(***************************************************************************)
(* The text helpers.  A candidate is [args], an argument is a span         *)
(*   [kind |-> "Span", parent, char_start, char_end]                       *)
(* or an object of another type, [kind |-> "Other"]; texts[parent] is the  *)
(* text of a parent.                                                       *)
(***************************************************************************)

\* (char_start, char_end, tag) < (char_start, char_end, tag) on tuples
TupleLess(a, b) ==
    \/ a[1] < b[1]
    \/ a[1] = b[1] /\ a[2] < b[2]
    \/ a[1] = b[1] /\ a[2] = b[2] /\ a[3] < b[3]

\* spans.sort()
RECURSIVE SortTuples(_)
SortTuples(spans) ==
    IF Len(spans) = 0 THEN <<>>
    ELSE LET x == spans[1]
             rest == SortTuples(Tail(spans))
         IN  SelectSeq(rest, LAMBDA y : TupleLess(y, x)) \o <<x>>
             \o SelectSeq(rest, LAMBDA y : ~TupleLess(y, x))

\* "{{%s}}" % tag
TagChunk(tag) == <<123, 123, tag, 125, 125>>

\* The chunks that follow the first tag: the text between two spans and the
\* tag of the second, for every pair of neighbours (lines 30-32).
RECURSIVE ChunksFrom(_, _, _)
ChunksFrom(text, spans, j) ==
    IF j > Len(spans) - 1 THEN <<>>
    ELSE <<PySlice(text, spans[j][2] + 1, spans[j + 1][1]), TagChunk(spans[j + 1][3])>>
         \o ChunksFrom(text, spans, j + 1)

\* get_text_splits with the gaps cut as text[char_end:char_start'], the span
\* taken as the half-open range.
get_text_splits_halfopen(texts, c) ==
    IF \E i \in 1..Len(c.args) : c.args[i].kind # "Span"
    THEN Exception("ValueError", 0)
    ELSE LET spans == SortTuples([i \in 1..Len(c.args) |->
                         <<c.args[i].char_start, c.args[i].char_end, 65 + (i - 1)>>])
             text == texts[c.args[Len(c.args)].parent]
             gaps == [j \in 1..(Len(spans) - 1) |->
                         <<PySlice(text, spans[j][2], spans[j + 1][1]),
                           TagChunk(spans[j + 1][3])>>]
         IN  Value(<<PySlice(text, 0, spans[1][1]), TagChunk(spans[1][3])>>
                   \o Flatten(gaps)
                   \o <<PySlice(text, spans[Len(spans)][2], Len(text))>>, 0)

\* get_text_splits without the isinstance test: an argument that is no span
\* has no char_start.
get_text_splits_unchecked(texts, c) ==
    IF \E i \in 1..Len(c.args) : c.args[i].kind # "Span"
    THEN Exception("AttributeError", 0)
    ELSE LET spans == SortTuples([i \in 1..Len(c.args) |->
                         <<c.args[i].char_start, c.args[i].char_end, 65 + (i - 1)>>])
             text == texts[c.args[Len(c.args)].parent]
         IN  Value(<<PySlice(text, 0, spans[1][1]), TagChunk(spans[1][3])>>
                   \o ChunksFrom(text, spans, 1)
                   \o <<PySlice(text, spans[Len(spans)][2] + 1, Len(text))>>, 0)

\* get_text_splits(c): the first argument that is no span raises ValueError;
\* the spans are sorted by (char_start, char_end, tag), the tag of argument
\* i being chr(65 + i); the text is that of the parent of the last argument.
get_text_splits(texts, c) ==
    IF \E i \in 1..Len(c.args) : c.args[i].kind # "Span"
    THEN Exception("ValueError", 0)
    ELSE LET spans == SortTuples([i \in 1..Len(c.args) |->
                         <<c.args[i].char_start, c.args[i].char_end, 65 + (i - 1)>>])
             text == texts[c.args[Len(c.args)].parent]
         IN  Value(<<PySlice(text, 0, spans[1][1]), TagChunk(spans[1][3])>>
                   \o ChunksFrom(text, spans, 1)
                   \o <<PySlice(text, spans[Len(spans)][2] + 1, Len(text))>>, 0)

\* get_tagged_text(c): "".join(get_text_splits(c))
get_tagged_text(texts, c) ==
    LET chunks == get_text_splits(texts, c)
    IN  IF chunks.raises # "none" THEN chunks
        ELSE Value(join(<<>>, chunks.value), 0)

\* get_text_between(c)
get_text_between(texts, c) ==
    LET chunks == get_text_splits(texts, c)
    IN  IF chunks.raises # "none" THEN chunks
        ELSE IF Len(chunks.value) = 5 THEN Value(chunks.value[3], 0)
        ELSE Exception("ValueError", 0)

(***************************************************************************)
(* The text helpers on candidates of one to three arguments over two       *)
(* parents, whose texts have MaxChars characters and no character in       *)
(* common.                                                                 *)
(***************************************************************************)
BaseTexts ==
    << <<97, 98, 99, 100, 101, 102>>,            \* abcdef
       <<117, 118, 119, 120, 121, 122>> >>       \* uvwxyz

ParentTexts == [p \in Parents |-> SubSeq(BaseTexts[p], 1, Min(MaxChars, Len(BaseTexts[p])))]

CharSpans ==
    {sp \in [kind : {"Span"}, parent : Parents,
             char_start : 0..(MaxChars - 1), char_end : 0..(MaxChars - 1)] :
        sp.char_start <= sp.char_end}

TextArguments == CharSpans \cup {[kind |-> "Other"]}

TextCandidates ==
    {[args |-> <<a>>] : a \in TextArguments}
    \cup {[args |-> <<a, b>>] : a \in TextArguments, b \in TextArguments}
    \cup {[args |-> <<a, b, d>>] :
            a \in TextArguments, b \in TextArguments, d \in TextArguments}

InitText ==
    /\ env \in {[texts |-> ParentTexts, c |-> c] : c \in TextCandidates}
    /\ call = NoCall
    /\ pc = "idle"
    /\ pos = 0
    /\ out = <<>>
    /\ err = "none"
    /\ lookups = 0

CallTextSplits ==
    CallFunction([op |-> "get_text_splits", c |-> env.c],
                 get_text_splits(env.texts, env.c))

CallTaggedText ==
    CallFunction([op |-> "get_tagged_text", c |-> env.c],
                 get_tagged_text(env.texts, env.c))

CallTextBetween ==
    CallFunction([op |-> "get_text_between", c |-> env.c],
                 get_text_between(env.texts, env.c))

NextText ==
    \/ CallTextSplits
    \/ CallTaggedText
    \/ CallTextBetween
    \/ Return

SpecText == InitText /\ [][NextText]_vars

(***************************************************************************)
(* Claims about the text helpers, checked under SpecText.                  *)
(***************************************************************************)
AllSpans(c) == \A i \in 1..Len(c.args) : c.args[i].kind = "Span"

TextCallDone(op) == call.op = op /\ pc = "done"

\* C18: get_text_splits raises ValueError for a candidate with an argument
\* that is no span, and returns 2k+1 chunks for a candidate of k spans;
\* get_text_between raises ValueError for every candidate that does not
\* have exactly two spans and returns a chunk, the text between them, for
\* every candidate of exactly two spans.
C18_TextContract ==
    /\ TextCallDone("get_text_splits") =>
            IF AllSpans(call.c)
            THEN /\ err = "none"
                 /\ Len(out) = 1
                 /\ Len(out[1]) = 2 * Len(call.c.args) + 1
            ELSE err = "ValueError" /\ out = <<>>
    /\ TextCallDone("get_text_between") =>
            IF AllSpans(call.c) /\ Len(call.c.args) = 2
            THEN /\ err = "none"
                 /\ Len(out) = 1
                 /\ \E lo \in 0..MaxChars, hi \in 0..MaxChars :
                        out[1] = PySlice(env.texts[call.c.args[2].parent], lo, hi)
            ELSE err = "ValueError" /\ out = <<>>

\* get_text_between has returned the one character between the two spans
\* of a candidate whose second span comes first in the text.
C18_Witness ==
    /\ TextCallDone("get_text_between") /\ err = "none"
    /\ Len(call.c.args) = 2
    /\ call.c.args[1].parent = call.c.args[2].parent
    /\ call.c.args[2].char_end + 2 = call.c.args[1].char_start
    /\ out = <<<<env.texts[call.c.args[1].parent][call.c.args[2].char_end + 2]>>>>

\* The spans of the candidate share one parent.
OneParent(c) == \A i \in 1..Len(c.args) : c.args[i].parent = c.args[1].parent

\* The characters from..to of the text, counted from 0, both ends included.
Chars(text, from, to) == SubSeq(text, from + 1, to + 1)

\* The tagged text with every tag {{A}}, {{B}}, ... replaced by the text
\* given for the argument of that tag.
RECURSIVE Untag(_, _)
Untag(tagged, span_texts) ==
    IF Len(tagged) = 0 THEN <<>>
    ELSE IF /\ Len(tagged) >= 5
            /\ tagged[1] = 123 /\ tagged[2] = 123
            /\ tagged[3] - 64 \in 1..Len(span_texts)
            /\ tagged[4] = 125 /\ tagged[5] = 125
    THEN span_texts[tagged[3] - 64] \o Untag(SubSeq(tagged, 6, Len(tagged)), span_texts)
    ELSE <<tagged[1]>> \o Untag(Tail(tagged), span_texts)

\* C19 as stated: the span being the half-open range [char_start,
\* char_end), for spans of one parent that are disjoint as such ranges,
\* putting each span's text back in the place of its tag gives the parent
\* text.
C19_TaggedTextHalfOpen ==
    (/\ TextCallDone("get_tagged_text") /\ AllSpans(call.c) /\ OneParent(call.c)
     /\ \A i \in 1..Len(call.c.args), j \in 1..Len(call.c.args) :
            i # j => \/ call.c.args[i].char_end <= call.c.args[j].char_start
                     \/ call.c.args[j].char_end <= call.c.args[i].char_start) =>
        LET text == env.texts[call.c.args[1].parent]
        IN  /\ err = "none"
            /\ Untag(out[1], [i \in 1..Len(call.c.args) |->
                                Chars(text, call.c.args[i].char_start,
                                      call.c.args[i].char_end - 1)]) = text

\* C19, amended: the span being the closed range [char_start, char_end]
\* (char_end is the index of the span's last character), for spans of one
\* parent that are disjoint as such ranges, get_tagged_text is the parent
\* text with each span's characters replaced by its tag, {{A}} for the first
\* argument, {{B}} for the second, ...: putting each span's text back in the
\* place of its tag gives the parent text.
C19_TaggedTextClosed ==
    (/\ TextCallDone("get_tagged_text") /\ AllSpans(call.c) /\ OneParent(call.c)
     /\ \A i \in 1..Len(call.c.args), j \in 1..Len(call.c.args) :
            i # j => \/ call.c.args[i].char_end < call.c.args[j].char_start
                     \/ call.c.args[j].char_end < call.c.args[i].char_start) =>
        LET text == env.texts[call.c.args[1].parent]
        IN  /\ err = "none"
            /\ Len(out[1]) = Len(text) + 5 * Len(call.c.args)
                    - (LET RECURSIVE Covered2(_)
                           Covered2(i) == IF i = 0 THEN 0
                                          ELSE call.c.args[i].char_end
                                               - call.c.args[i].char_start + 1
                                               + Covered2(i - 1)
                       IN  Covered2(Len(call.c.args)))
            /\ Untag(out[1], [i \in 1..Len(call.c.args) |->
                                Chars(text, call.c.args[i].char_start,
                                      call.c.args[i].char_end)]) = text

\* get_tagged_text has returned "a{{B}}{{A}}" or the like: two spans next to
\* each other, the second argument first in the text, one character before
\* them and none after.
C19_Witness ==
    /\ TextCallDone("get_tagged_text") /\ err = "none"
    /\ Len(call.c.args) = 2 /\ OneParent(call.c)
    /\ call.c.args[2].char_start = 1
    /\ call.c.args[2].char_end + 1 = call.c.args[1].char_start
    /\ call.c.args[1].char_end = MaxChars - 1
    /\ out = <<<<env.texts[call.c.args[1].parent][1]>> \o TagChunk(66) \o TagChunk(65)>>

(***************************************************************************)
(* The completion flag of the visual pass, checked under SpecVisual.       *)
(***************************************************************************)

\* C23: a document that carries the flag _visual_features has had the pass
\* run to its end on all of its pages: no page raised, and every phrase has
\* the _aligned_lemmas a whole pass gives it (for some order of the pages).
\* A pass that stops with an error leaves the flag unset.
C23_FlagMeansComplete ==
    env.doc._visual_features =>
        \E pages \in PageOrders(env.doc) :
            LET whole == ProcessPages([i \in 1..Len(Phrases) |-> {}], Phrases, pages)
            IN  /\ whole.raises = "none"
                /\ \A i \in 1..Len(Phrases) :
                        Phrases[i]._aligned_lemmas = whole.aligned[i]

(***************************************************************************)
(* CDRModel.extract (semantic/model.py): the sentences of the documents    *)
(* are put into the train, dev and test sets by the name of their          *)
(* document, and the candidate extractor is applied to the sets.  A        *)
(* document is its name and its sentences; doc_ids.pkl gives the three     *)
(* lists of names.  What the candidate extractor does with the sentences   *)
(* is not part of the model: out holds the calls made to it.               *)
(***************************************************************************)
MaxDocs == 2

TRAIN == 0
DEV == 1
TEST == 2

\* The branch of lines 109-116 taken for a sentence of the document: the
\* split whose id set is found to hold the name, NoIndex for the raise.  The
\* branch with the tests of lines 109 and 111 in the other order comes first.
SplitOfName_devfirst(name, train_ids, dev_ids, test_ids) ==
    IF name \in dev_ids THEN DEV
    ELSE IF name \in train_ids THEN TRAIN
    ELSE IF name \in test_ids THEN TEST
    ELSE NoIndex

SplitOfName(name, train_ids, dev_ids, test_ids) ==
    IF name \in train_ids THEN TRAIN
    ELSE IF name \in dev_ids THEN DEV
    ELSE IF name \in test_ids THEN TEST
    ELSE NoIndex

\* The loop of lines 107-116 over the documents still to come; sents[1],
\* sents[2], sents[3] are train_sents, dev_sents and test_sents.  A document
\* without sentences passes no test.
RECURSIVE AssignSentences(_, _, _, _, _)
AssignSentences(docs, train_ids, dev_ids, test_ids, sents) ==
    IF Len(docs) = 0 THEN [sents |-> sents, raises |-> "none"]
    ELSE LET doc == docs[1]
             split == SplitOfName(doc.name, train_ids, dev_ids, test_ids)
         IN  IF Len(doc.sentences) = 0
             THEN AssignSentences(Tail(docs), train_ids, dev_ids, test_ids, sents)
             ELSE IF split = NoIndex
             THEN [sents |-> sents, raises |-> "Exception"]
             ELSE AssignSentences(Tail(docs), train_ids, dev_ids, test_ids,
                                  [sents EXCEPT ![split + 1] =
                                       @ \cup {doc.sentences[k] :
                                                  k \in 1..Len(doc.sentences)}])

\* The loop of lines 119-121: the calls of SnorkelModel.extract, and so of
\* cand_extractor.apply(sents, split=split, ...), in their order.
ApplyExtractor(sents, splits) ==
    LET applied == SelectSeq(<<TRAIN, DEV, TEST>>,
                             LAMBDA split : sents[split + 1] # {} /\ split \in splits)
    IN  [k \in 1..Len(applied) |->
            [split |-> applied[k], sents |-> sents[applied[k] + 1]]]

\* CDRModel.extract(): the three sets at the end of the call, the calls made
\* to the candidate extractor and the exception raised, if any.  docs is
\* the answer of the query of line 106, in the order of the names.
CDRModel_extract(docs, train_ids, dev_ids, test_ids, splits) ==
    LET assigned == AssignSentences(docs, train_ids, dev_ids, test_ids, <<{}, {}, {}>>)
    IN  [sents |-> assigned.sents,
         applied |-> IF assigned.raises = "none"
                     THEN ApplyExtractor(assigned.sents, splits) ELSE <<>>,
         raises |-> assigned.raises]

CallExtract ==
    /\ pc = "idle"
    /\ LET r == CDRModel_extract(env.docs, env.train_ids, env.dev_ids, env.test_ids,
                                 env.splits)
       IN  /\ call' = [op |-> "CDRModel.extract", sents |-> r.sents]
           /\ out' = r.applied
           /\ err' = r.raises
    /\ pc' = "done"
    /\ UNCHANGED <<env, pos, lookups>>

\* The documents are named 1..MaxDocs and have 0, 1 or 2 sentences each; a
\* sentence is known by the name of its document and its place in it.
DocNames == 1..MaxDocs

SentencesOf(name, count) == [k \in 1..count |-> <<name, k>>]

DocumentLists ==
    {[name \in DocNames |-> [name |-> name, sentences |-> SentencesOf(name, counts[name])]] :
        counts \in [DocNames -> 0..2]}

InitSplit ==
    /\ env \in [docs : DocumentLists,
                 train_ids : SUBSET DocNames,
                 dev_ids : SUBSET DocNames,
                 test_ids : SUBSET DocNames,
                 splits : SUBSET {TRAIN, DEV, TEST}]
    /\ call = NoCall
    /\ pc = "idle"
    /\ pos = 0
    /\ out = <<>>
    /\ err = "none"
    /\ lookups = 0

NextSplit ==
    \/ CallExtract
    \/ Return

SpecSplit == InitSplit /\ [][NextSplit]_vars

(***************************************************************************)
(* Claims about CDRModel.extract, checked under SpecSplit.                 *)
(***************************************************************************)
ExtractDone == call.op = "CDRModel.extract" /\ pc = "done"

\* The documents that have a sentence.
WithSentences == {k \in 1..Len(env.docs) : Len(env.docs[k].sentences) > 0}

SentenceSet(k) == {env.docs[k].sentences[j] : j \in 1..Len(env.docs[k].sentences)}

\* The document's name is in none of the three id sets.
Unlisted(k) == env.docs[k].name \notin (env.train_ids \cup env.dev_ids \cup env.test_ids)

\* C22: when no document with sentences is unlisted, every sentence of every
\* document is in exactly one of the train, dev and test sets: the train set
\* if the name is a train id, else the dev set if it is a dev id, else the
\* test set; and the extractor is applied, in the order train, dev, test, to
\* the sets that are not empty and whose split is in config['splits'], and
\* to nothing else.  When a document with sentences is unlisted the call
\* raises and the extractor is applied to no split.
C22_SplitsByName ==
    ExtractDone =>
        IF \E k \in WithSentences : Unlisted(k)
        THEN err = "Exception" /\ out = <<>>
        ELSE /\ err = "none"
             /\ \A k \in WithSentences : \A s \in SentenceSet(k) :
                    LET name == env.docs[k].name
                        set == IF name \in env.train_ids THEN 1
                               ELSE IF name \in env.dev_ids THEN 2 ELSE 3
                    IN  \A i \in 1..3 : (s \in call.sents[i]) <=> (i = set)
             /\ \A i \in 1..3 : call.sents[i] \subseteq UNION {SentenceSet(k) : k \in WithSentences}
             /\ \A n \in 1..Len(out) :
                    /\ out[n].split \in env.splits
                    /\ out[n].sents # {}
                    /\ out[n].sents = call.sents[out[n].split + 1]
                    /\ \A m \in 1..Len(out) : m < n => out[m].split < out[n].split
             /\ \A split \in env.splits :
                    call.sents[split + 1] # {} => \E n \in 1..Len(out) : out[n].split = split

\* A document named in the train and the dev ids has gone to the train set,
\* another to the test set, and the extractor was applied to the train set
\* only, test not being among the splits.
C22_Witness ==
    /\ ExtractDone /\ err = "none"
    /\ \E k \in WithSentences :
            /\ env.docs[k].name \in env.train_ids \cap env.dev_ids
            /\ SentenceSet(k) \subseteq call.sents[1]
    /\ call.sents[2] = {} /\ call.sents[3] # {}
    /\ DEV \in env.splits /\ TEST \notin env.splits
    /\ Len(out) = 1 /\ out[1].split = TRAIN

(***************************************************************************)
(* CDRModel (semantic/model.py): self.config, self.LFs and the relabel     *)
(* loop of label.  A labeling function is [name, labels]: its __name__, as *)
(* a number (the order of the numbers is the order of the names), and the  *)
(* column of the label matrix of the training candidates that the labeler  *)
(* computes for it: 1, -1, or 0 where it abstains.  LabelAnnotator and its *)
(* matrix are not in src/: as lines 257-259 and 268-271 take it, column i  *)
(* of L_train belongs to self.LFs[i] and has one row per training          *)
(* candidate.  The state of a model is                                     *)
(*   [config, LFs_is_None, LFs, cdr_lfs, parser_LFs, nCandidates]:         *)
(* self.config, whether self.LFs is None and the list it holds otherwise,  *)
(* the list get_cdr_lfs() gives, the groups of functions the semantic      *)
(* parser gives (sp.LFs, in the order of LFGroups), and the number of      *)
(* candidates of the training split in the session.                        *)
(***************************************************************************)
MaxLFs == 3

TrainCandidates == {1, 2}

\* The columns a labeling function of a source may have: -1 on both
\* candidates, or a label on the first and an abstention on the second.
LabelColumns == {<<-1, -1>>, <<1, 0>>, <<-1, 0>>}

\* LF_closer_chem, LF_closer_dis, LF_ctd_marker_induce and
\* LF_ctd_unspecified_induce of cdr_lfs (line 217), with the names 101, 103,
\* 105 and 107, each with its column: two with the same labels, a uniform
\* one and one that abstains on every candidate.
PyOnlyLFs ==
    << [name |-> 101, labels |-> <<1, 0>>], [name |-> 103, labels |-> <<1, 0>>],
       [name |-> 105, labels |-> <<1, 1>>], [name |-> 107, labels |-> <<0, 0>>] >>

\* The groups of sp.LFs, in the order of line 203.
LFGroups == <<"correct", "passing", "failing", "redundant", "erroring", "unknown">>

\* What the sources give and the session holds: get_cdr_lfs() gives up to
\* MaxLFs functions, each with any of the columns, and the four py-only
\* functions after them; the parser gives as many functions, with names of
\* their own and the same columns, one in each of the first groups.
Worlds ==
    UNION {{[cdr_lfs |-> [i \in 1..n |-> [name |-> i, labels |-> columns[i]]]
                            \o PyOnlyLFs,
             parser_LFs |-> [g \in 1..Len(LFGroups) |->
                                IF g <= n
                                THEN <<[name |-> 100 + 2 * g, labels |-> columns[g]]>>
                                ELSE <<>>],
             nCandidates |-> c] :
                columns \in [1..n -> LabelColumns],
                c \in {0, Cardinality(TrainCandidates)}} :
           n \in 0..MaxLFs}

\* The configs a model is made with and a method is given, each with every
\* key the methods read.  DefaultConfig labels with both filters, takes the
\* functions of cdr_lfs without the py-only ones, and trains a generative
\* model and a logistic regression.  The others: both filters in every
\* setting; no training split among the splits, both filters on or off; the
\* parser's functions, with the dependencies shown; some of the parser's
\* groups with the py-only functions, and a majority vote; a source that is
\* none of 'py' and 'nl', and a model that is not logreg; all of cdr_lfs,
\* hard labels, and a search without a dev split; and a limit on the number
\* of labeling functions.
Configs ==
    LET DefaultConfig ==
            [splits |-> <<TRAIN, DEV>>,
             filter_uniform_labels |-> TRUE, filter_redundant_signatures |-> TRUE,
             source |-> "py", max_lfs |-> 0, include_py_only_lfs |-> FALSE,
             include |-> {LFGroups[g] : g \in 1..Len(LFGroups)},
             model |-> "logreg", traditional |-> 0, majority_vote |-> FALSE,
             model_dep |-> FALSE, verbose |-> FALSE, n_search |-> 1]
    IN  {[DefaultConfig EXCEPT !.filter_uniform_labels = u,
                               !.filter_redundant_signatures = r] :
            u \in BOOLEAN, r \in BOOLEAN}
        \cup {[DefaultConfig EXCEPT !.splits = <<DEV>>,
                                    !.filter_uniform_labels = b,
                                    !.filter_redundant_signatures = b] : b \in BOOLEAN}
        \cup {[DefaultConfig EXCEPT !.splits = <<TRAIN, DEV, TEST>>, !.source = "nl",
                                    !.model_dep = TRUE, !.verbose = TRUE],
              [DefaultConfig EXCEPT !.source = "nl", !.include = {"correct", "failing"},
                                    !.include_py_only_lfs = TRUE, !.majority_vote = TRUE],
              [DefaultConfig EXCEPT !.source = "zz", !.model = "svm"],
              [DefaultConfig EXCEPT !.splits = <<TRAIN>>, !.include_py_only_lfs = TRUE,
                                    !.traditional = 1, !.n_search = 2],
              [DefaultConfig EXCEPT !.max_lfs = 1]}

\* `if config: self.config = config`: the whole config is replaced.
WithConfig(self, config) ==
    IF config = None THEN self ELSE [self EXCEPT !.config = config]

\* np.random.shuffle(LFs); LFs[:max_lfs]: the first max_lfs of the list in
\* any order of its elements.
Truncated(LFs, max_lfs) ==
    {[k \in 1..Min(max_lfs, Len(LFs)) |-> LFs[order[k]]] : order \in Orders(1..Len(LFs))}

\* Lines 157-221: the list of the source, or no list where the source is
\* none of 'py' and 'nl'.  From cdr_lfs the functions with the four py-only
\* names (line 161) are removed unless config['include_py_only_lfs']; of the
\* parser's groups those that config['include'] names are put one after the
\* other (203-215), and with config['include_py_only_lfs'] the py-only
\* functions are added and the list is sorted by name.
LFsOfSource(self) ==
    IF self.config.source = "py"
    THEN IF ~self.config.include_py_only_lfs
         THEN SelectSeq(self.cdr_lfs, LAMBDA lf : lf.name \notin {101, 103, 105, 107})
         ELSE self.cdr_lfs
    ELSE LET Kept(g) == IF LFGroups[g] \in self.config.include
                        THEN self.parser_LFs[g] ELSE <<>>
             LFs == Kept(1) \o Kept(2) \o Kept(3) \o Kept(4) \o Kept(5) \o Kept(6)
         IN  IF self.config.include_py_only_lfs
             THEN sorted(LFs \o PyOnlyLFs, "name")
             ELSE LFs

\* generate_lfs(config): the outcomes of the call.
generate_lfs(self, config) ==
    LET model == WithConfig(self, config)
    IN  IF model.config.source \notin {"py", "nl"}
        THEN {[value |-> model, raises |-> "Exception"]}
        ELSE {[value |-> [model EXCEPT !.LFs = LFs, !.LFs_is_None = FALSE], raises |-> "none"] :
                LFs \in IF model.config.max_lfs # 0
                        THEN Truncated(LFsOfSource(model), model.config.max_lfs)
                        ELSE {LFsOfSource(model)}}

\* display_dependencies(deps_encoded): `if not self.LFs` runs generate_lfs
\* when self.LFs is None or empty; LF_names[lf1], LF_names[lf2] and
\* dep_names[d] raise KeyError for a place that is not in self.LFs and for
\* a kind that is not among the four.
display_dependencies(self, deps_encoded) ==
    LET made == IF self.LFs_is_None \/ Len(self.LFs) = 0
                THEN generate_lfs(self, None)
                ELSE {[value |-> self, raises |-> "none"]}
        Unknown(r) == \E k \in 1..Len(deps_encoded) :
                        \/ deps_encoded[k].lf1 \notin 0..(Len(r.value.LFs) - 1)
                        \/ deps_encoded[k].lf2 \notin 0..(Len(r.value.LFs) - 1)
                        \/ deps_encoded[k].d \notin 0..3
    IN  {IF r.raises = "none" /\ Unknown(r) THEN [value |-> r.value, raises |-> "KeyError"] ELSE r :
            r \in made}

\* The dependencies display_dependencies is given, by its caller or by the
\* DependencySelector of supervise: none, one between the first two
\* functions, one of a kind that has no name.
Dependencies ==
    {<<>>, <<[lf1 |-> 0, lf2 |-> 1, d |-> 2]>>, <<[lf1 |-> 0, lf2 |-> 0, d |-> 4]>>}

\* supervise(config): hard labels and the majority vote read self.LFs
\* nowhere; the generative model shows the dependencies (model_dep and
\* verbose) and is trained with step_size=0.1/L_train.shape[0]: the
\* division raises when there is no training candidate.
supervise(self, config, deps) ==
    LET model == WithConfig(self, config)
    IN  IF model.config.traditional # 0 \/ model.config.majority_vote
        THEN {[value |-> model, raises |-> "none"]}
        ELSE LET shown == IF model.config.model_dep /\ model.config.verbose
                          THEN display_dependencies(model, deps)
                          ELSE {[value |-> model, raises |-> "none"]}
             IN  {IF r.raises = "none" /\ r.value.nCandidates = 0
                  THEN [value |-> r.value, raises |-> "ZeroDivisionError"] ELSE r : r \in shown}

\* classify(config): another model than logreg is not implemented; F_train
\* is bound when TRAIN is among the splits (line 366) and read on every path
\* (375, 388 or 408); the search reads F_dev, bound when DEV is among them.
classify(self, config) ==
    LET model == WithConfig(self, config)
        InSplits(split) ==
            \E k \in 1..Len(model.config.splits) : model.config.splits[k] = split
    IN  IF model.config.model # "logreg" THEN [value |-> model, raises |-> "NotImplementedError"]
        ELSE IF ~InSplits(TRAIN) THEN [value |-> model, raises |-> "UnboundLocalError"]
        ELSE IF model.config.n_search > 1 /\ ~InSplits(DEV)
             THEN [value |-> model, raises |-> "UnboundLocalError"]
        ELSE [value |-> model, raises |-> "none"]

\* Lines 241-248 bind L_train in a repetition of the loop: the training
\* split is among config['splits'] and has candidates.
TrainBound(self) ==
    /\ \E k \in 1..Len(self.config.splits) : self.config.splits[k] = TRAIN
    /\ self.nCandidates > 0

RECURSIVE SumOver(_, _)
SumOver(col, rows) ==
    IF rows = {} THEN 0
    ELSE LET r == CHOOSE x \in rows : TRUE
         IN  col[r] + SumOver(col, rows \ {r})

\* The loop of lines 257-259: the functions with
\* abs(np.sum(L_train[:,i])) == L_train.shape[0].
lf_useless(LFs) ==
    {LFs[i] : i \in {j \in 1..Len(LFs) :
                        Abs(SumOver(LFs[j].labels, DOMAIN LFs[j].labels))
                            = Cardinality(DOMAIN LFs[j].labels)}}

\* The rows of a column of the label matrix in the order its coordinate form
\* (coo_matrix of the row-compressed matrix) lists them: ascending.
RECURSIVE Ascending(_)
Ascending(S) ==
    IF S = {} THEN <<>>
    ELSE LET m == CHOOSE x \in S : \A y \in S : x <= y
         IN  <<m>> \o Ascending(S \ {m})

\* The signature with the rows of the entries only, their values left out.
Signature_rowsonly(col) ==
    LET row == Ascending({r \in DOMAIN col : col[r] # 0})
    IN  <<row, <<>>>>

\* Line 269: the rows and the values of the entries of the column in the
\* coo matrix, which holds the entries that are not 0, in the order of the
\* rows.  The code keeps hash((hash(tuple(rows)), hash(tuple(values)))); the
\* hash gives different columns of this size different values, so the pair
\* itself stands for it.
Signature(col) ==
    LET row == Ascending({r \in DOMAIN col : col[r] # 0})
    IN  <<row, [k \in 1..Len(row) |-> col[row[k]]]>>

\* The loop of lines 268-273 from column i on.
RECURSIVE TwinsLoop(_, _, _, _)
TwinsLoop(LFs, i, signatures, twins) ==
    IF i > Len(LFs) THEN twins
    ELSE LET signature == Signature(LFs[i].labels)
         IN  IF signature \in signatures
             THEN TwinsLoop(LFs, i + 1, signatures, twins \cup {LFs[i]})
             ELSE TwinsLoop(LFs, i + 1, signatures \cup {signature}, twins)

\* Lines 255-281 of one pass: lf_remove.
lf_remove(LFs, config) ==
    LET useless == IF config.filter_uniform_labels THEN lf_useless(LFs) ELSE {}
        twins == IF config.filter_redundant_signatures
                 THEN TwinsLoop(LFs, 1, {}, {}) \ useless
                 ELSE {}
    IN  useless \cup twins

\* label(config=None) up to the loop (lines 232-237): a config given
\* replaces self.config, and generate_lfs() is run when self.LFs is None; its
\* exception ends the call before the loop.
CallLabel ==
    /\ pc = "idle"
    /\ \E config \in {None} \cup Configs :
        LET model == WithConfig(env, config)
        IN  \E r \in IF model.LFs_is_None
                     THEN generate_lfs(model, None)
                     ELSE {[value |-> model, raises |-> "none"]} :
                /\ env' = r.value
                /\ err' = r.raises
                /\ pc' = IF r.raises = "none" THEN "running" ELSE "done"
                /\ call' = [op |-> "CDRModel.label", LFs |-> r.value.LFs]
    /\ pos' = 0
    /\ out' = <<>>
    /\ lookups' = 0

\* One repetition of `while True` (lines 240-289).  pos counts the
\* repetitions that have ended.  Without a training matrix, the first read of
\* L_train (line 257 or 264) raises UnboundLocalError.
LabelPass ==
    /\ pc = "running"
    /\ call.op = "CDRModel.label"
    /\ pos' = pos + 1
    /\ IF /\ ~TrainBound(env)
          /\ env.config.filter_uniform_labels \/ env.config.filter_redundant_signatures
       THEN /\ err' = "UnboundLocalError"
            /\ pc' = "done"
            /\ UNCHANGED env
       ELSE LET remove == IF TrainBound(env)
                          THEN lf_remove(env.LFs, env.config) ELSE {}
            IN  IF remove = {}
                THEN /\ pc' = "done"
                     /\ UNCHANGED <<env, err>>
                ELSE /\ env' = [env EXCEPT
                                   !.LFs = SelectSeq(@, LAMBDA lf : lf \notin remove)]
                     /\ UNCHANGED <<pc, err>>
    /\ UNCHANGED <<call, out, lookups>>

\* generate_lfs(config=None), called on its own.
CallGenerateLFs ==
    /\ pc = "idle"
    /\ \E config \in {None} \cup Configs :
        \E r \in generate_lfs(env, config) :
            /\ env' = r.value
            /\ err' = r.raises
    /\ call' = [op |-> "CDRModel.generate_lfs"]
    /\ pc' = "done"
    /\ pos' = 0
    /\ out' = <<>>
    /\ lookups' = 0

\* featurize(split=None, config=None): after `if config: self.config =
\* config` it sets self.featurizer, and neither self.config nor self.LFs.
CallFeaturize ==
    /\ pc = "idle"
    /\ \E config \in {None} \cup Configs :
        \E r \in {[value |-> WithConfig(env, config), raises |-> "none"]} :
            /\ env' = r.value
            /\ err' = r.raises
    /\ call' = [op |-> "CDRModel.featurize"]
    /\ pc' = "done"
    /\ pos' = 0
    /\ out' = <<>>
    /\ lookups' = 0

\* supervise(config=None)
CallSupervise ==
    /\ pc = "idle"
    /\ \E config \in {None} \cup Configs, deps \in Dependencies :
        \E r \in supervise(env, config, deps) :
            /\ env' = r.value
            /\ err' = r.raises
    /\ call' = [op |-> "CDRModel.supervise"]
    /\ pc' = "done"
    /\ pos' = 0
    /\ out' = <<>>
    /\ lookups' = 0

\* classify(config=None)
CallClassify ==
    /\ pc = "idle"
    /\ \E config \in {None} \cup Configs :
        \E r \in {classify(env, config)} :
            /\ env' = r.value
            /\ err' = r.raises
    /\ call' = [op |-> "CDRModel.classify"]
    /\ pc' = "done"
    /\ pos' = 0
    /\ out' = <<>>
    /\ lookups' = 0

\* display_dependencies(deps_encoded)
CallDisplayDependencies ==
    /\ pc = "idle"
    /\ \E deps \in Dependencies :
        \E r \in display_dependencies(env, deps) :
            /\ env' = r.value
            /\ err' = r.raises
    /\ call' = [op |-> "CDRModel.display_dependencies"]
    /\ pc' = "done"
    /\ pos' = 0
    /\ out' = <<>>
    /\ lookups' = 0

\* SnorkelModel.__init__(session, candidate_class, config): self.LFs is
\* None.
InitLabel ==
    /\ \E config \in Configs, world \in Worlds :
        env = [config |-> config,
               LFs_is_None |-> TRUE,
               LFs |-> <<>>,
               cdr_lfs |-> world.cdr_lfs,
               parser_LFs |-> world.parser_LFs,
               nCandidates |-> world.nCandidates]
    /\ call = NoCall
    /\ pc = "idle"
    /\ pos = 0
    /\ out = <<>>
    /\ err = "none"
    /\ lookups = 0

NextLabel ==
    \/ CallLabel
    \/ LabelPass
    \/ CallGenerateLFs
    \/ CallFeaturize
    \/ CallSupervise
    \/ CallClassify
    \/ CallDisplayDependencies
    \/ Return

\* A call that has begun goes on: the loop is run by the caller's thread.
SpecLabel == InitLabel /\ [][NextLabel]_vars /\ WF_vars(LabelPass)

(***************************************************************************)
(* Claims about CDRModel.label, checked under SpecLabel.                   *)
(***************************************************************************)
LabelRunning == call.op = "CDRModel.label" /\ pc = "running"

LabelDone == call.op = "CDRModel.label" /\ pc = "done"

\* The labeling function gives every training candidate the same label.
Uniform(lf) == \E label \in {-1, 1} : \A c \in TrainCandidates : lf.labels[c] = label

\* The labeling function at place k of the list is the first of the list
\* with its labels on the training candidates.
FirstOfSignature(LFs, k) == \A j \in 1..(k - 1) : LFs[j].labels # LFs[k].labels

\* With both filters on and a training matrix, a call that has ended without
\* an exception has left no uniform labeling function and no two with the
\* same labels, and has kept, in their order, the labeling functions that
\* were the first of a non-uniform signature when the loop began.
LabelExit ==
    (/\ LabelDone /\ err = "none" /\ TrainBound(env)
     /\ env.config.filter_uniform_labels /\ env.config.filter_redundant_signatures) =>
        /\ \A i \in 1..Len(env.LFs) :
                /\ ~Uniform(env.LFs[i])
                /\ FirstOfSignature(env.LFs, i)
        /\ LET kept == SelectSeq([k \in 1..Len(call.LFs) |-> k],
                                 LAMBDA k : /\ ~Uniform(call.LFs[k])
                                            /\ FirstOfSignature(call.LFs, k))
           IN  env.LFs = [n \in 1..Len(kept) |-> call.LFs[kept[n]]]

\* C21: label always terminates.  A repetition of the loop that is followed
\* by another leaves strictly fewer labeling functions; a repetition that
\* removes none ends the loop, and the loop ends without an exception in no
\* other way; on exit LabelExit holds; and a call that has begun comes to
\* its end.
C21_RelabelTerminates ==
    /\ [][LabelRunning =>
            /\ pc' = "running" => Len(env'.LFs) < Len(env.LFs)
            /\ (pos' # pos /\ env'.LFs = env.LFs) => pc' = "done"
            /\ (pc' = "done" /\ err' = "none") => env'.LFs = env.LFs
            /\ env'.config = env.config
            /\ pos <= Len(call.LFs)]_vars
    /\ []LabelExit
    /\ (LabelRunning ~> LabelDone)

\* The call has ended after two repetitions: the first removed a uniform
\* labeling function and the twin of another and kept the rest, the second
\* removed none.
C21_Witness ==
    /\ LabelDone /\ err = "none" /\ TrainBound(env)
    /\ env.config.filter_uniform_labels /\ env.config.filter_redundant_signatures
    /\ pos = 2
    /\ Len(call.LFs) = 3 /\ Len(env.LFs) = 1
    /\ \E k \in 1..3 : Uniform(call.LFs[k])
    /\ \E k \in 1..3 : ~Uniform(call.LFs[k]) /\ ~FirstOfSignature(call.LFs, k)

====
